---- MODULE Spec2Model ----
(***************************************************************************)
(* Model of the EPW morphing engine of future_weather_files.               *)
(*                                                                         *)
(*   Spec      : EPWMorphingManager - add_morpher and create_morphed_epw   *)
(*               (utils/epw_morphing_manager.py) over instances of the     *)
(*               concrete morpher classes.  An hourly series is named by   *)
(*               the pair <<variable, location>> that determines it.       *)
(*   MorphSpec : the hourly loops of the morph_variable methods            *)
(*               (morphers/*.py), one step per hour.  Temperatures are in  *)
(*               hundredths of a degree, humidities in percent.            *)
(*   WriteSpec : the merge of the morphed columns into the record, line by *)
(*               line (create_morphed_epw, lines 154-183).                 *)
(*   ParseSpec : the read_dif_file methods, line by line, and the check    *)
(*               their callers make of the result.                         *)
(*   SampleSpec: get_value_from_tif and get_monthly_values                 *)
(*               (morphers/base_morpher.py).                               *)
(*   DewPointSpec: the pipeline together with the loop of the dew point    *)
(*               morph it calls.                                           *)
(*   OrganizeSpec: organize_files over the files of the base directory.    *)
(*   PrecSpec  : PrecipitableWaterMorpher.morph_variable, one step per     *)
(*               hour.                                                     *)
(***************************************************************************)
EXTENDS Integers, Sequences, FiniteSets, TLC

VARIABLES
    \* ---- EPWMorphingManager and its environment ----
    morphers,          \* self.morphers
    organized_files,   \* self.organized_files[experiment][target_year]: key -> state of its first file
    epw_cols,          \* number of columns pandas reads from self.epw_path (0: read_csv raises)
    pc,                \* position of the caller: "setup", "loop", "done"
    idx,               \* position of the for loop in self.morphers (1-based)
    morphed_data,      \* dict epw_column -> morphed series
    stored_results,    \* dict variable_name -> morphed series
    log,               \* each iteration: variable, branch taken, series passed on, series returned
    ret,               \* return value of create_morphed_epw
    written,           \* whether output_path was written
    new_columns,       \* the columns substituted in the written record
    \* ---- one call of a morph_variable method ----
    kind,              \* the class whose morph_variable runs
    n,                 \* len(base_data)
    hour,              \* number of loop iterations completed
    current_month,
    month_hour_count,
    out_len,           \* len() of the list being built
    delta_rhum,        \* the 12 monthly humidity deltas
    rh0,               \* base_data[hour] of the last iteration (relative humidity)
    morphed_value,     \* the value appended by the last iteration
    len_temp,          \* len(future_temp)
    len_rh,            \* len(future_rh)
    future_temp,       \* future_temp[0..hour-1] as far as read
    future_rh,         \* future_rh[0..hour-1], likewise
    morphed_dpt,       \* the dew point list being built
    fell_back,         \* hours of the dew point loop that took the except branch
    mpc,               \* position inside morph_variable: "means", "loop", "done"
    mret,              \* what morph_variable returned: "pending", "None", "list"
    \* ---- the values of the wind speed loop ----
    hist_norm,         \* normalized historic monthly wind speeds, percent
    base_norm,         \* normalized baseline monthly wind speeds, percent
    scaling_factors,   \* the 12 monthly factors alpha, percent
    ws0,               \* base_data[hour] of the last iteration, knots
    morphed_speed,     \* the value appended by the last iteration, millionths
    \* ---- the values of the temperature loop, hundredths of a degree ----
    base_data,         \* the baseline series, given by the shape of its values
    monthly_stats,     \* month -> mean, max, min of its baseline hours
    delta_tmax,        \* the 12 monthly changes of the daily maximum
    delta_tmin,        \* the 12 monthly changes of the daily minimum
    delta_temp,        \* the 12 monthly changes of the mean
    scaling_factors_dbt, \* scaling_factors of the temperature morph, percent
    dbt0,              \* base_data[hour] of the last iteration
    morphed_temp,      \* the value appended by the last iteration
    \* ---- the merge of the morphed columns into the record ----
    header_lines,      \* the first 8 lines of self.epw_path
    data_lines,        \* the remaining lines, each a sequence of fields
    line_hour,         \* number of iterations of 'for hour, line in enumerate(data_lines)' completed
    new_data_lines,    \* the lines built so far
    out_file,          \* output_path: whether it exists, its header and data lines
    \* ---- one call of a read_dif_file method and the check of its caller ----
    parser,            \* the class whose read_dif_file runs
    lines,             \* f.readlines()
    line_no,           \* number of iterations of 'for line in lines' completed
    monthly_values,
    month_value,       \* <<>> for None, <<v>> for the value v
    current_month_name,\* current_month: <<>> for None, <<name>> after a month marker
    current_month_data,
    dif_ret,           \* what read_dif_file returned
    signal_ret,        \* the caller after its check of the result: "pending", "None", "morphs"
    \* ---- get_value_from_tif and get_monthly_values ----
    sampling,          \* the method that runs: "none", "tif", "monthly"
    window_data,       \* data = src.read(1, window): 3 rows of 3 cells
    nodata_declared,   \* src.nodata is not None
    x_frac,            \* in quarters of a cell
    y_frac,
    scale_factor,
    tif_ret,           \* what get_value_from_tif returned
    monthly_files,     \* the file list passed to get_monthly_values
    file_no,           \* number of iterations of 'for file_path in sorted(...)' completed
    sampled_values,    \* monthly_values of get_monthly_values
    monthly_ret,       \* what get_monthly_values returned
    hist_ret,          \* the wind morph after 'if not hist_wind': "pending", "None", "morphs"
    \* ---- organize_files ----
    base_path,         \* the files of self.base_path in the order glob yields them
    glob_no,           \* number of iterations of 'for file_path in ...glob' completed
    organized,         \* self.organized_files: experiment -> year -> variable -> list of files
    organize_ret,      \* "pending", "done", or "KeyError" when organize_files raised
    \* ---- PrecipitableWaterMorpher.morph_variable ----
    epw_file,          \* name of the weather record the run reads, in parts
    prec_file,         \* climate_files['PREC'][0], in parts
    prec_base,         \* base_data: column 28 of the weather record
    delta_prec,        \* what read_dif_file returned: None or 12 changes
    processed_data,    \* preprocess_base_data(base_data, ...)
    base_mean,         \* processed_data.mean()
    prec_factors,      \* scaling_factors of the precipitable water morph
    prec_hour,         \* number of iterations of the morphing loop completed
    prec_month,        \* current_month of the morphing loop
    prec_count,        \* month_hour_count of the morphing loop
    morphed_prec,      \* the value the loop appended last
    prec_pc,           \* "start", "loop", "done"
    prec_ret           \* "pending", "None", "list"

pvars == <<morphers, organized_files, epw_cols, pc, idx, morphed_data,
           stored_results, log, ret, written, new_columns>>
mvars == <<kind, n, hour, current_month, month_hour_count, out_len, delta_rhum,
           rh0, morphed_value, len_temp, len_rh, future_temp, future_rh,
           morphed_dpt, fell_back, mpc, mret>>
tvars == <<base_data, monthly_stats, delta_tmax, delta_tmin, delta_temp,
           scaling_factors_dbt, dbt0, morphed_temp>>
hvars == <<hist_norm, base_norm, scaling_factors, ws0, morphed_speed, tvars>>
wvars == <<header_lines, data_lines, line_hour, new_data_lines, out_file>>
dvars == <<parser, lines, line_no, monthly_values, month_value,
           current_month_name, current_month_data, dif_ret, signal_ret>>
svars == <<sampling, window_data, nodata_declared, x_frac, y_frac, scale_factor, tif_ret,
           monthly_files, file_no, sampled_values, monthly_ret, hist_ret>>
gvars == <<base_path, glob_no, organized, organize_ret>>
qvars == <<epw_file, prec_file, prec_base, delta_prec, processed_data, base_mean,
           prec_factors, prec_hour, prec_month, prec_count, morphed_prec,
           prec_pc, prec_ret>>
xvars == <<gvars, qvars>>
ovars == <<wvars, dvars, svars, xvars>>
vars == <<pvars, mvars, hvars, ovars>>

(***************************************************************************)
(* Bounds                                                                  *)
(***************************************************************************)
MaxMorphers == 3
MaxDamaged == 1
MaxHours == 8761       \* longest baseline series of the hourly loops
MaxDewHours == 6       \* longest baseline series of the dew point loop
MaxShort == 1          \* by how much future_temp, future_rh may be shorter than base_data

(***************************************************************************)
(* Series and morphers                                                     *)
(***************************************************************************)
None == <<"None", "-">>

\* a series is determined by the variable and, where the morph samples
\* rasters at the morpher's own location, by that location
Series(var, loc) == <<var, loc>>

TemperatureMorpher ==
    [cls |-> "TemperatureMorpher", epw_column |-> 6, variable_name |-> "TEMP",
     required_files |-> {"TEMP", "TMAX", "TMIN"}, epw_path |-> "None"]

RelativeHumidityMorpher ==
    [cls |-> "RelativeHumidityMorpher", epw_column |-> 8, variable_name |-> "RH",
     required_files |-> {"RHUM"}, epw_path |-> "None"]

DewPointMorpher ==
    [cls |-> "DewPointMorpher", epw_column |-> 7, variable_name |-> "DPT",
     required_files |-> {"TEMP_historic", "VAPR_historic", "TMAX_future", "TMIN_future"},
     epw_path |-> "None"]

WindSpeedMorpher ==
    [cls |-> "WindSpeedMorpher", epw_column |-> 21, variable_name |-> "WIND",
     required_files |-> {"WIND_historic"}, epw_path |-> "None"]

PrecipitableWaterMorpher ==
    [cls |-> "PrecipitableWaterMorpher", epw_column |-> 28, variable_name |-> "PREC",
     required_files |-> {"PREC"}, epw_path |-> "None"]

\* m.epw_path = path, assigned by the caller
WithEpwPath(m, path) == [m EXCEPT !.epw_path = path]

\* the morpher objects a caller registers
Morphers ==
    {TemperatureMorpher, RelativeHumidityMorpher, DewPointMorpher,
     WindSpeedMorpher, PrecipitableWaterMorpher,
     WithEpwPath(DewPointMorpher, "A"),
     WithEpwPath(WindSpeedMorpher, "A"), WithEpwPath(WindSpeedMorpher, "B")}

\* keys of the climate file set
AllKeys == {"TEMP", "TMAX", "TMIN", "RHUM", "PREC", "WIND_historic"}

\* column counts of the baseline record: a full record, a truncated one,
\* and 0 for a record pandas cannot parse
EpwShapes == {0, 9, 35}


(***************************************************************************)
(* EPWMorphingManager                                                      *)
(***************************************************************************)
EmptyDict == [k \in {} |-> None]

\* dict[key] = value
SetItem(dict, key, value) ==
    [k \in DOMAIN dict \cup {key} |-> IF k = key THEN value ELSE dict[k]]

\* the first file listed under key exists in the set and can be read and parsed
FileOK(climate_files, key) ==
    key \in DOMAIN climate_files /\ climate_files[key] = "ok"

\* read_epw_data: the column of the baseline record, None when read_csv or
\* iloc raises
read_epw_data(column) ==
    IF column < epw_cols THEN Series("BASE", "-") ELSE None

\* get_location_from_epw: opens the morpher's own epw_path
get_location_from_epw(m) ==
    IF m.epw_path = "None" THEN None ELSE Series("LOC", m.epw_path)

\* The morph_variable methods as the manager sees them.  Every body is
\* wrapped in try/except: a lookup of an absent key, a file that does not
\* parse and any other exception end in 'return None'.

\* TemperatureMorpher.morph_variable: reads the TMAX, TMIN and TEMP tables
temperature_morph_variable(m, climate_files) ==
    IF \A key \in {"TMAX", "TMIN", "TEMP"} : FileOK(climate_files, key)
    THEN Series("TEMP", "-") ELSE None

\* RelativeHumidityMorpher.morph_variable: reads the RHUM table
humidity_morph_variable(m, climate_files) ==
    IF FileOK(climate_files, "RHUM") THEN Series("RH", "-") ELSE None

\* PrecipitableWaterMorpher.morph_variable: reads the PREC table
precipitation_morph_variable(m, climate_files) ==
    IF FileOK(climate_files, "PREC") THEN Series("PREC", "-") ELSE None

\* WindSpeedMorpher.morph_variable: samples the historic rasters at the
\* location read from the morpher's epw_path
wind_morph_variable(m, climate_files) ==
    IF get_location_from_epw(m) = None THEN None
    ELSE IF FileOK(climate_files, "WIND_historic")
         THEN Series("WIND", m.epw_path) ELSE None

\* morpher.morph_variable(base_data, climate_files, experiment, target_year)
morph_variable(m, climate_files) ==
    CASE m.cls = "TemperatureMorpher" -> temperature_morph_variable(m, climate_files)
      [] m.cls = "RelativeHumidityMorpher" -> humidity_morph_variable(m, climate_files)
      [] m.cls = "PrecipitableWaterMorpher" -> precipitation_morph_variable(m, climate_files)
      [] m.cls = "WindSpeedMorpher" -> wind_morph_variable(m, climate_files)

\* DewPointMorpher.morph_variable: needs both future series and a location,
\* the series itself is computed from future_temp and future_rh alone
morph_dew_point(m, future_temp_series, future_rh_series) ==
    IF future_temp_series = None \/ future_rh_series = None THEN None
    ELSE IF get_location_from_epw(m) = None THEN None
    ELSE Series("DPT", "-")

\* future_temp=pd.Series(stored_results['TEMP']),
\* future_rh=pd.Series(stored_results['RH'])
DewPointArgumentsFromRecord(results) == <<Series("BASE", "-"), Series("BASE", "-")>>
DewPointArguments(results) == <<results["TEMP"], results["RH"]>>

\* 'TEMP' not in stored_results or 'RH' not in stored_results, negated
DependencyMetOnlyTemp(results) == "TEMP" \in DOMAIN results
DependencyMet(results) ==
    "TEMP" \in DOMAIN results /\ "RH" \in DOMAIN results

\* all(key in climate_files for key in morpher.required_files)
RequiredFilesPresentAny(m, climate_files) ==
    \E key \in m.required_files : key \in DOMAIN climate_files
RequiredFilesPresent(m, climate_files) ==
    \A key \in m.required_files : key \in DOMAIN climate_files

\* for morpher in self.morphers
CurrentMorpherReversed == morphers[Len(morphers) + 1 - idx]
CurrentMorpher == morphers[idx]

\* the body of one loop iteration up to 'if morphed_values': which branch is
\* taken and what morph_variable returned
Iteration(m) ==
    IF read_epw_data(m.epw_column) = None
    THEN [outcome |-> "NoBase", values |-> None, args |-> <<>>]
    ELSE IF m.cls = "DewPointMorpher"
    THEN IF ~DependencyMet(stored_results)
         THEN [outcome |-> "DepUnmet", values |-> None, args |-> <<>>]
         ELSE IF "TEMP" \notin DOMAIN stored_results \/ "RH" \notin DOMAIN stored_results
         THEN [outcome |-> "Raised", values |-> None, args |-> <<>>]   \* KeyError in the call arguments
         ELSE LET args == DewPointArguments(stored_results)
                  v == morph_dew_point(m, args[1], args[2])
              IN  [outcome |-> IF v # None THEN "Morphed" ELSE "MorphFailed",
                   values |-> v, args |-> args]
    ELSE IF ~RequiredFilesPresent(m, organized_files)
    THEN [outcome |-> "MissingFiles", values |-> None, args |-> <<>>]
    ELSE LET v == morph_variable(m, organized_files)
         IN  [outcome |-> IF v # None THEN "Morphed" ELSE "MorphFailed",
              values |-> v, args |-> <<>>]

\* the loop position after an iteration: 'continue' and the end of the body
\* both go on with the next morpher
AfterIterationBreak(outcome) ==
    IF outcome = "Morphed" THEN idx + 1 ELSE Len(morphers) + 1
AfterIteration(outcome) == idx + 1

\* morphed_data[morpher.epw_column] = morphed_values
StoreColumn(data, m, values) == SetItem(data, m.epw_column, values)

\* stored_results[morpher.variable_name] = morphed_values
StoreResultDepsOnly(results, m, values) ==
    IF m.variable_name \in {"TEMP", "RH"}
    THEN SetItem(results, m.variable_name, values) ELSE results
StoreResultFresh(results, m, values) == SetItem(EmptyDict, m.variable_name, values)
StoreResult(results, m, values) == SetItem(results, m.variable_name, values)

\* 'if not morphed_data'
NothingMorphedUnlessAll(data) == Cardinality(DOMAIN data) < Len(morphers)
NothingMorphed(data) == DOMAIN data = {}

\* add_morpher
add_morpher(m) ==
    /\ pc = "setup"
    /\ Len(morphers) < MaxMorphers
    /\ morphers' = Append(morphers, m)
    /\ UNCHANGED <<organized_files, epw_cols, pc, idx, morphed_data,
                   stored_results, log, ret, written, new_columns>>
    /\ UNCHANGED <<mvars, hvars, ovars>>

\* create_morphed_epw up to the loop: the two dicts are created empty
create_morphed_epw ==
    /\ pc = "setup"
    /\ pc' = "loop"
    /\ idx' = 1
    /\ morphed_data' = EmptyDict
    /\ stored_results' = EmptyDict
    /\ UNCHANGED <<morphers, organized_files, epw_cols, log, ret, written, new_columns>>
    /\ UNCHANGED <<mvars, hvars, ovars>>

\* one iteration of 'for morpher in self.morphers'
process_morpher ==
    /\ pc = "loop"
    /\ idx <= Len(morphers)
    /\ LET m == CurrentMorpher
           it == Iteration(m)
       IN  /\ log' = Append(log, [variable |-> m.variable_name, column |-> m.epw_column,
                                  outcome |-> it.outcome, values |-> it.values,
                                  args |-> it.args])
           /\ IF it.outcome = "Raised"
              THEN \* except Exception: return None
                   /\ pc' = "done"
                   /\ ret' = "None"
                   /\ UNCHANGED <<idx, morphed_data, stored_results>>
              ELSE /\ idx' = AfterIteration(it.outcome)
                   /\ IF it.outcome = "Morphed"
                      THEN /\ morphed_data' = StoreColumn(morphed_data, m, it.values)
                           /\ stored_results' = StoreResult(stored_results, m, it.values)
                      ELSE UNCHANGED <<morphed_data, stored_results>>
                   /\ UNCHANGED <<pc, ret>>
    /\ UNCHANGED <<morphers, organized_files, epw_cols, written, new_columns>>
    /\ UNCHANGED <<mvars, hvars, ovars>>

\* after the loop: return None, or write the record with the morphed columns
\* substituted and return its path
write_morphed_epw ==
    /\ pc = "loop"
    /\ idx > Len(morphers)
    /\ pc' = "done"
    /\ IF NothingMorphed(morphed_data)
       THEN /\ ret' = "None"
            /\ UNCHANGED <<written, new_columns>>
       ELSE /\ written' = TRUE
            /\ new_columns' = morphed_data
            /\ ret' = "path"
    /\ UNCHANGED <<morphers, organized_files, epw_cols, idx, morphed_data,
                   stored_results, log>>
    /\ UNCHANGED <<mvars, hvars, ovars>>

\* the call of morph_variable is idle while the manager is modelled
MorphIdle ==
    /\ kind = "none" /\ n = 0 /\ hour = 0 /\ current_month = 1
    /\ month_hour_count = 0 /\ out_len = 0
    /\ delta_rhum = [month \in 1..12 |-> 0]
    /\ rh0 = 0 /\ morphed_value = 0 /\ len_temp = 0 /\ len_rh = 0
    /\ future_temp = <<>> /\ future_rh = <<>> /\ morphed_dpt = <<>>
    /\ fell_back = {} /\ mpc = "done" /\ mret = "pending"

\* no wind speed loop is running
WindIdle ==
    /\ hist_norm = [month \in 1..12 |-> 100]
    /\ base_norm = [month \in 1..12 |-> 100]
    /\ scaling_factors = [month \in 1..12 |-> 100]
    /\ ws0 = 0
    /\ morphed_speed = 0

\* no temperature loop is running
FlatSeries == [break |-> 0, swing |-> 0, amplitude |-> 0]
NoStats == [month \in 1..12 |-> [mean |-> 0, max |-> 0, min |-> 0]]
TempIdle ==
    /\ base_data = FlatSeries
    /\ monthly_stats = NoStats
    /\ delta_tmax = [month \in 1..12 |-> 0]
    /\ delta_tmin = [month \in 1..12 |-> 0]
    /\ delta_temp = [month \in 1..12 |-> 0]
    /\ scaling_factors_dbt = [month \in 1..12 |-> 100]
    /\ dbt0 = 0
    /\ morphed_temp = 0

\* output_path before it is written
NoFile == [exists |-> FALSE, header |-> <<>>, data |-> <<>>]

\* no record is being merged
WriterIdle ==
    /\ header_lines = <<>> /\ data_lines = <<>> /\ line_hour = 0
    /\ new_data_lines = <<>> /\ out_file = NoFile

\* read_dif_file has not returned
Pending == [done |-> FALSE, ok |-> FALSE, values |-> <<>>]

\* no difference table is being read
ParserIdle ==
    /\ parser = "none" /\ lines = <<>> /\ line_no = 0
    /\ monthly_values = <<>> /\ month_value = <<>>
    /\ current_month_name = <<>> /\ current_month_data = <<>>
    /\ dif_ret = Pending /\ signal_ret = "pending"

\* -9999, the no-data value of the rasters
NoDataValue == -9999

\* a window of cells that all hold no data
EmptyWindow == [y \in 1..3 |-> [x \in 1..3 |-> NoDataValue]]

\* no raster is being sampled
SamplerIdle ==
    /\ sampling = "none" /\ window_data = EmptyWindow /\ nodata_declared = TRUE
    /\ x_frac = 0 /\ y_frac = 0 /\ scale_factor = 1
    /\ tif_ret = Pending /\ monthly_files = <<>> /\ file_no = 0
    /\ sampled_values = <<>> /\ monthly_ret = Pending /\ hist_ret = "pending"

\* self.experiments, self.future_years and the years of the mapping
experiments == {"A2a", "A2b", "A2c"}
future_years == {"2020", "2050", "2080"}
OrganizedYears == future_years \cup {"1980"}

\* self.organized_files as line 34 creates it
NothingOrganized == [exp \in experiments |-> [year \in OrganizedYears |-> <<>>]]

\* organize_files is not running
OrganizerIdle ==
    /\ base_path = <<>> /\ glob_no = 0
    /\ organized = NothingOrganized /\ organize_ret = "pending"

\* a series of len hours: the hours before break hold first, the others rest
NoSeries == [len |-> 0, first |-> 0, rest |-> 0, break |-> 0]

\* the precipitable water morph is not running
PrecIdle ==
    /\ epw_file = <<>> /\ prec_file = <<>> /\ prec_base = NoSeries
    /\ delta_prec = None /\ processed_data = NoSeries /\ base_mean = 0
    /\ prec_factors = <<>> /\ prec_hour = 0 /\ prec_month = 1 /\ prec_count = 0
    /\ morphed_prec = 0 /\ prec_pc = "start" /\ prec_ret = "pending"

ExtrasIdle == OrganizerIdle /\ PrecIdle

OthersIdle == WriterIdle /\ ParserIdle /\ SamplerIdle /\ ExtrasIdle

\* the files present and readable, at most MaxDamaged things wrong
Damaged(files, cols) ==
    Cardinality(AllKeys \ DOMAIN files)
      + Cardinality({k \in DOMAIN files : files[k] # "ok"})
      + (IF cols = 35 THEN 0 ELSE 1)

Init ==
    /\ morphers = <<>>
    /\ \E present \in SUBSET AllKeys : \E bad \in SUBSET present :
         organized_files = [k \in present |-> IF k \in bad THEN "bad" ELSE "ok"]
    /\ epw_cols \in EpwShapes
    /\ Damaged(organized_files, epw_cols) <= MaxDamaged
    /\ pc = "setup"
    /\ idx = 0
    /\ morphed_data = EmptyDict
    /\ stored_results = EmptyDict
    /\ log = <<>>
    /\ ret = "pending"
    /\ written = FALSE
    /\ new_columns = EmptyDict
    /\ MorphIdle
    /\ WindIdle
    /\ TempIdle
    /\ OthersIdle

Next ==
    \/ \E m \in Morphers : add_morpher(m)
    \/ create_morphed_epw
    \/ process_morpher
    \/ write_morphed_epw

Spec == Init /\ [][Next]_vars


(***************************************************************************)
(* morph_variable, hour by hour                                            *)
(***************************************************************************)
hours_per_month ==
    <<31*24, 28*24, 31*24, 30*24, 31*24, 30*24, 31*24, 31*24, 30*24, 31*24, 30*24, 31*24>>

EnumerateKinds ==
    {"TemperatureMorpher", "RelativeHumidityMorpher", "WindSpeedMorpher",
     "PrecipitableWaterMorpher", "SolarRadiationMorpher"}
MorphKinds == EnumerateKinds \cup {"DewPointMorpher"}

\* lengths of the baseline series: empty, a month and an hour, a year, more
SeriesLens == {0, 31*24 + 1, 365*24, MaxHours}

\* relative humidity: baseline values and monthly deltas, percent; the
\* weather record allows humidities up to 110
BaseRH == {10, 90, 105}
RHDeltas == {-20, 0, 20}
DeltaTables ==
    {[month \in 1..12 |-> IF month % 2 = 1 THEN a ELSE b] : a \in RHDeltas, b \in RHDeltas}
NoDeltas == [month \in 1..12 |-> 0]

\* dew point: future dry bulb and baseline dew point in hundredths of a
\* degree, future humidity in percent
FutureTemps == {1000, 2000}
FutureRHs == {0, 100}
BaseDPT == {500, 1500}
Missing == -99999      \* no entry at this index
NaN == 999999          \* float('nan')

\* float comparison: false when either side is nan
Gt(a, b) == a # NaN /\ b # NaN /\ a > b

\* 'if month_hour_count >= hours_per_month[current_month - 1]' and the
\* wrap of current_month, at the head of every hourly loop
MonthForHour(month, count) ==
    IF count >= hours_per_month[month]
    THEN (IF month + 1 > 12 THEN 1 ELSE month + 1)
    ELSE month
CountForHour(month, count) ==
    IF count >= hours_per_month[month] THEN 0 ELSE count

\* max(0, min(100, morphed_value))
Min2(a, b) == IF b < a THEN b ELSE a
Max2(a, b) == IF b > a THEN b ELSE a
ClampRHUpperOnly(value) == Min2(100, value)
ClampRHTo110(value) == Max2(0, Min2(110, value))
ClampRH(value) == Max2(0, Min2(100, value))

\* list.append: the length of the list afterwards
AfterAppendWithinYear(len) == IF len < 365*24 THEN len + 1 ELSE len
AfterAppend(len) == len + 1

\* calculate_saturation_pressure, in Pa: 611 * exp(17.27 t / (237.7 + t))
calculate_saturation_pressure(t) ==
    CASE t = 1000 -> 1227
      [] t = 2000 -> 2334

\* calculate_partial_pressure
calculate_partial_pressure(rh, saturation_pressure) ==
    (rh * saturation_pressure) \div 100

\* calculate_dew_point: the ASHRAE polynomial in ln(pw), with its sub-zero
\* branch; ln(0) is -inf and the polynomial then evaluates to nan
calculate_dew_point(pw) ==
    CASE pw = 0 -> NaN
      [] pw = 1227 -> 1002
      [] pw = 2334 -> 1998

\* 'if dpt > future_temp[hour]: dpt = future_temp[hour]'
LimitToDryBulb(dpt, temp) == IF Gt(dpt, temp) THEN temp ELSE dpt

\* the try block of one hour of the dew point loop
DewPointOfHour(temp, rh) ==
    LimitToDryBulb(
        calculate_dew_point(
            calculate_partial_pressure(rh, calculate_saturation_pressure(temp))),
        temp)

\* wind speed: baseline values in knots, and pairs <<historic, baseline>> of
\* normalized monthly means in percent; the baseline mean of a month is 0
\* when every hour of the month is calm
BaseWS == {0, 10}
WindNorms == {<<100, 100>>, <<120, 100>>, <<120, 0>>}

\* 0.514444, in millionths
KnotsToMs == 514444

\* wind_change = ((hist_norm - base_norm) / base_norm * 100) if base_norm > 0
\* else 0;  alpha = 1 + wind_change / 100
WindScalingFactor(hist, base) ==
    LET wind_change == IF base > 0 THEN ((hist - base) * 100) \div base ELSE 0
    IN  100 + wind_change

\* morphed_speed = (alpha * ws0) * 0.514444, in millionths of a m/s
MorphedSpeed(alpha, speed) == ((alpha * speed) * KnotsToMs) \div 100

\* temperature: the baseline series alternates hour by hour between a low
\* and a high value, amplitude apart, and is raised by swing from the hour
\* break on; every sum below divides exactly
LowTemp == 1000
BaseSeries ==
    {[break |-> 372, swing |-> 1000, amplitude |-> 1000],
     [break |-> 744, swing |-> 1000, amplitude |-> 1000],
     [break |-> 8016, swing |-> 1000, amplitude |-> 1000],
     [break |-> 744, swing |-> 1000, amplitude |-> 0]}

\* base_data[h], h counted from 0
BaseTemp(series, h) ==
    LowTemp + (IF h % 2 = 1 THEN series.amplitude ELSE 0)
            + (IF h >= series.break THEN series.swing ELSE 0)

\* the monthly changes <<TEMP, TMAX, TMIN>> read from the .dif files
TempSignals == {<<0, 0, 0>>, <<200, 300, -700>>, <<-100, 400, -100>>}

\* float('inf'), as numpy divides a positive number by zero
Inf == 888888

\* sum(), max() and min() of base_data[a:b]
RECURSIVE SumOf(_, _, _)
SumOf(series, a, b) ==
    IF b <= a THEN 0
    ELSE IF b = a + 1 THEN BaseTemp(series, a)
    ELSE LET mid == (a + b) \div 2
         IN  SumOf(series, a, mid) + SumOf(series, mid, b)
RECURSIVE MaxOf(_, _, _)
MaxOf(series, a, b) ==
    IF b <= a THEN NaN
    ELSE IF b = a + 1 THEN BaseTemp(series, a)
    ELSE LET mid == (a + b) \div 2
         IN  Max2(MaxOf(series, a, mid), MaxOf(series, mid, b))
RECURSIVE MinOf(_, _, _)
MinOf(series, a, b) ==
    IF b <= a THEN NaN
    ELSE IF b = a + 1 THEN BaseTemp(series, a)
    ELSE LET mid == (a + b) \div 2
         IN  Min2(MinOf(series, a, mid), MinOf(series, mid, b))

\* start_idx and end_idx of a month in calculate_monthly_statistics
RECURSIVE start_idx(_)
start_idx(month) ==
    IF month = 1 THEN 0 ELSE start_idx(month - 1) + hours_per_month[month - 1]
SliceOfEqualMonths(month) ==
    [start |-> (month - 1) * 730, end |-> month * 730]
SliceOf(month) ==
    [start |-> start_idx(month), end |-> start_idx(month) + hours_per_month[month]]

\* calculate_monthly_statistics(hourly_data) for a series of len hours: a
\* slice past the end of the series is cut short; mean, max and min of an
\* empty slice are nan
calculate_monthly_statistics(series, len) ==
    [month \in 1..12 |->
        LET a == Min2(SliceOf(month).start, len)
            b == Min2(SliceOf(month).end, len)
        IN  [mean |-> IF b <= a THEN NaN ELSE SumOf(series, a, b) \div (b - a),
             max |-> MaxOf(series, a, b),
             min |-> MinOf(series, a, b)]]

\* alpha = (delta_tmax[month] - delta_tmin[month]) / (dbt0_max - dbt0_min),
\* in percent; the statistics are numpy floats, so a zero range gives inf,
\* or nan for 0 / 0, and raises nothing
TempScalingFactor(tmax, tmin, stats) ==
    IF stats.max = NaN \/ stats.min = NaN THEN NaN
    ELSE IF stats.max - stats.min = 0
         THEN (IF tmax - tmin = 0 THEN NaN
               ELSE IF tmax - tmin > 0 THEN Inf ELSE -Inf)
    ELSE ((tmax - tmin) * 100) \div (stats.max - stats.min)

\* morphed_temp = dbt0 + delta_t + alpha * (dbt0 - dbt0_mean)
MorphedTemp(base, delta_t, alpha, dbt0_mean) ==
    LET diff == IF dbt0_mean = NaN THEN NaN ELSE base - dbt0_mean
        product ==
            IF alpha = NaN \/ diff = NaN THEN NaN
            ELSE IF alpha \in {Inf, -Inf}
                 THEN (IF diff = 0 THEN NaN
                       ELSE IF (diff > 0) = (alpha = Inf) THEN Inf ELSE -Inf)
            ELSE (alpha * diff) \div 100
    IN  IF product \in {NaN, Inf, -Inf} THEN product
        ELSE base + delta_t + product

\* lengths a future series may have next to a baseline of length len
ShortLens(len) == {l \in 0..len : len - l <= MaxShort}

\* range(min(5, len(morphed_dpt))) of the sample report
SampleCount == 5

\* the manager is idle while morph_variable is modelled
PipelineIdle ==
    /\ morphers = <<>> /\ organized_files = EmptyDict /\ epw_cols = 35
    /\ pc = "idle" /\ idx = 0 /\ morphed_data = EmptyDict
    /\ stored_results = EmptyDict /\ log = <<>> /\ ret = "pending"
    /\ written = FALSE /\ new_columns = EmptyDict

\* morph_variable at the head of its hourly loop: the signals are read
MorphInit ==
    /\ PipelineIdle
    /\ OthersIdle
    /\ kind \in MorphKinds
    /\ IF kind = "DewPointMorpher"
       THEN /\ n \in 0..MaxDewHours
            /\ len_temp \in ShortLens(n)
            /\ len_rh \in ShortLens(n)
       ELSE /\ n \in SeriesLens
            /\ len_temp = 0
            /\ len_rh = 0
    /\ IF kind = "RelativeHumidityMorpher"
       THEN delta_rhum \in DeltaTables
       ELSE delta_rhum = NoDeltas
    /\ IF kind = "WindSpeedMorpher"
       THEN /\ \E odd \in WindNorms : \E even \in WindNorms :
                 /\ hist_norm = [month \in 1..12 |->
                                   IF month % 2 = 1 THEN odd[1] ELSE even[1]]
                 /\ base_norm = [month \in 1..12 |->
                                   IF month % 2 = 1 THEN odd[2] ELSE even[2]]
            /\ scaling_factors = [month \in 1..12 |->
                                    WindScalingFactor(hist_norm[month], base_norm[month])]
            /\ ws0 = 0
            /\ morphed_speed = 0
       ELSE WindIdle
    /\ IF kind = "TemperatureMorpher"
       THEN /\ base_data \in BaseSeries
            /\ monthly_stats = calculate_monthly_statistics(base_data, n)
            /\ \E odd \in TempSignals : \E even \in TempSignals :
                 /\ delta_temp = [month \in 1..12 |->
                                    IF month % 2 = 1 THEN odd[1] ELSE even[1]]
                 /\ delta_tmax = [month \in 1..12 |->
                                    IF month % 2 = 1 THEN odd[2] ELSE even[2]]
                 /\ delta_tmin = [month \in 1..12 |->
                                    IF month % 2 = 1 THEN odd[3] ELSE even[3]]
            /\ scaling_factors_dbt =
                   [month \in 1..12 |->
                       TempScalingFactor(delta_tmax[month], delta_tmin[month],
                                         monthly_stats[month])]
            /\ dbt0 = 0
            /\ morphed_temp = 0
       ELSE TempIdle
    /\ hour = 0
    /\ current_month = 1
    /\ month_hour_count = 0
    /\ out_len = 0
    /\ rh0 = 0
    /\ morphed_value = 0
    /\ future_temp = <<>>
    /\ future_rh = <<>>
    /\ morphed_dpt = <<>>
    /\ fell_back = {}
    /\ mpc = IF kind = "SolarRadiationMorpher" THEN "means" ELSE "loop"
    /\ mret = "pending"

\* SolarRadiationMorpher: one iteration of the monthly means loop, which
\* indexes hours_per_month without wrapping current_month
solar_means_hour ==
    /\ kind = "SolarRadiationMorpher"
    /\ mpc = "means"
    /\ hour < n
    /\ IF current_month > 12
       THEN \* IndexError, caught by the except of morph_variable
            /\ mpc' = "done"
            /\ mret' = "None"
            /\ UNCHANGED <<hour, current_month, month_hour_count>>
       ELSE /\ hour' = hour + 1
            /\ IF month_hour_count + 1 >= hours_per_month[current_month]
               THEN /\ month_hour_count' = 0
                    /\ current_month' = current_month + 1
               ELSE /\ month_hour_count' = month_hour_count + 1
                    /\ UNCHANGED current_month
            /\ UNCHANGED <<mpc, mret>>
    /\ UNCHANGED <<kind, n, out_len, delta_rhum, rh0, morphed_value, len_temp,
                   len_rh, future_temp, future_rh, morphed_dpt,
                   fell_back>>
    /\ UNCHANGED <<pvars, hvars, ovars>>

\* SolarRadiationMorpher: from the monthly means to the morphing loop
solar_means_done ==
    /\ kind = "SolarRadiationMorpher"
    /\ mpc = "means"
    /\ hour = n
    /\ mpc' = "loop"
    /\ hour' = 0
    /\ current_month' = 1
    /\ month_hour_count' = 0
    /\ UNCHANGED <<kind, n, out_len, delta_rhum, rh0, morphed_value, len_temp,
                   len_rh, future_temp, future_rh, morphed_dpt,
                   fell_back, mret>>
    /\ UNCHANGED <<pvars, hvars, ovars>>

\* one iteration of 'for hour, x in enumerate(base_data)'; the appended value
\* is modelled for relative humidity
morph_hour ==
    /\ kind \in EnumerateKinds
    /\ mpc = "loop"
    /\ hour < n
    /\ LET month == MonthForHour(current_month, month_hour_count)
           count == CountForHour(current_month, month_hour_count)
       IN  /\ current_month' = month
           /\ month_hour_count' = count + 1
           /\ IF kind = "RelativeHumidityMorpher"
              THEN \E base \in BaseRH :
                     /\ rh0' = base
                     /\ morphed_value' = ClampRH(base + delta_rhum[month])
              ELSE UNCHANGED <<rh0, morphed_value>>
           /\ IF kind = "WindSpeedMorpher"
              THEN \E base \in BaseWS :
                     /\ ws0' = base
                     /\ morphed_speed' = MorphedSpeed(scaling_factors[month], base)
              ELSE UNCHANGED <<ws0, morphed_speed>>
           /\ IF kind = "TemperatureMorpher"
              THEN /\ dbt0' = BaseTemp(base_data, hour)
                   /\ morphed_temp' =
                          MorphedTemp(BaseTemp(base_data, hour), delta_temp[month],
                                      scaling_factors_dbt[month],
                                      monthly_stats[month].mean)
              ELSE UNCHANGED <<dbt0, morphed_temp>>
    /\ out_len' = AfterAppend(out_len)
    /\ hour' = hour + 1
    /\ UNCHANGED <<kind, n, delta_rhum, len_temp, len_rh, future_temp, future_rh,
                   morphed_dpt, fell_back, mpc, mret>>
    /\ UNCHANGED <<hist_norm, base_norm, scaling_factors>>
    /\ UNCHANGED <<base_data, monthly_stats, delta_tmax, delta_tmin, delta_temp,
                   scaling_factors_dbt>>
    /\ UNCHANGED <<pvars, ovars>>

\* after the loop: the statistics take min() of the list, which raises on an
\* empty one; otherwise the list is returned
morph_return ==
    /\ kind \in EnumerateKinds
    /\ mpc = "loop"
    /\ hour = n
    /\ mpc' = "done"
    /\ mret' = IF out_len = 0 THEN "None" ELSE "list"
    /\ UNCHANGED <<kind, n, hour, current_month, month_hour_count, out_len,
                   delta_rhum, rh0, morphed_value, len_temp, len_rh,
                   future_temp, future_rh, morphed_dpt, fell_back>>
    /\ UNCHANGED <<pvars, hvars, ovars>>

\* DewPointMorpher: one iteration of 'for hour in range(len(base_data))';
\* indexing a future series past its end raises KeyError, and the except
\* branch appends the baseline dew point
dew_hour ==
    /\ kind = "DewPointMorpher"
    /\ mpc = "loop"
    /\ hour < n
    /\ \E temp \in (IF hour < len_temp THEN FutureTemps ELSE {Missing}) :
       \E rh \in (IF hour < len_rh THEN FutureRHs ELSE {Missing}) :
         /\ future_temp' = Append(future_temp, temp)
         /\ future_rh' = Append(future_rh, rh)
         /\ IF hour < len_temp /\ hour < len_rh
            THEN /\ morphed_dpt' = Append(morphed_dpt, DewPointOfHour(temp, rh))
                 /\ UNCHANGED fell_back
            ELSE /\ \E base \in BaseDPT : morphed_dpt' = Append(morphed_dpt, base)
                 /\ fell_back' = fell_back \cup {hour + 1}
    /\ out_len' = AfterAppend(out_len)
    /\ hour' = hour + 1
    /\ UNCHANGED <<kind, n, current_month, month_hour_count, delta_rhum, rh0,
                   morphed_value, len_temp, len_rh, mpc, mret>>
    /\ UNCHANGED <<pvars, hvars, ovars>>

\* DewPointMorpher after the loop: None for an empty list; the sample report
\* indexes the first hours of both future series, a KeyError there is caught
\* by the outer except and None is returned
dew_return ==
    /\ kind = "DewPointMorpher"
    /\ mpc = "loop"
    /\ hour = n
    /\ mpc' = "done"
    /\ mret' = IF morphed_dpt = <<>> THEN "None"
               ELSE IF Min2(SampleCount, Len(morphed_dpt)) > Min2(len_temp, len_rh)
               THEN "None"
               ELSE "list"
    /\ UNCHANGED <<kind, n, hour, current_month, month_hour_count, out_len,
                   delta_rhum, rh0, morphed_value, len_temp, len_rh,
                   future_temp, future_rh, morphed_dpt, fell_back>>
    /\ UNCHANGED <<pvars, hvars, ovars>>

MorphNext ==
    \/ solar_means_hour
    \/ solar_means_done
    \/ morph_hour
    \/ morph_return
    \/ dew_hour
    \/ dew_return

MorphSpec == MorphInit /\ [][MorphNext]_vars

\* the dew point morph as a run of the pipeline reaches it and as its loop
\* computes it: the manager up to the call, and the call hour by hour
DewPointInit == Init \/ (MorphInit /\ kind = "DewPointMorpher")
DewPointNext == Next \/ dew_hour \/ dew_return
DewPointSpec == DewPointInit /\ [][DewPointNext]_vars

(***************************************************************************)
(* create_morphed_epw, the merge of the morphed columns line by line       *)
(***************************************************************************)
MaxRows == 3           \* most data lines of the baseline record

\* a field of a comma separated line: its text and whether white space
\* precedes or follows it
Field(text) == [lead |-> FALSE, text |-> text, trail |-> FALSE]

\* the shapes of a data line: the 35 fields of the layout, the same with white
\* space around the line, a line cut after 9 fields, an empty line
LineShapes == {"full", "padded", "short", "blank"}
DataLine(r, shape) ==
    CASE shape = "full" -> [c \in 1..35 |-> Field(<<r, c - 1>>)]
      [] shape = "padded" ->
           [c \in 1..35 |-> [lead |-> c = 1, text |-> <<r, c - 1>>, trail |-> c = 35]]
      [] shape = "short" -> [c \in 1..9 |-> Field(<<r, c - 1>>)]
      [] shape = "blank" -> <<Field("")>>

\* pandas.read_csv skips empty lines
IsBlank(line) == Len(line) = 1 /\ line[1].text = ""
PandasRows(rows) == SelectSeq(rows, LAMBDA line : ~IsBlank(line))

\* read_csv takes the number of columns from the first row and raises on a
\* longer one
PandasReads(rows) ==
    /\ PandasRows(rows) # <<>>
    /\ \A r \in 1..Len(rows) : Len(rows[r]) <= Len(PandasRows(rows)[1])

\* line.strip().split(','): white space at both ends of the line is dropped
StripNothing(line) == line
strip(line) ==
    [c \in 1..Len(line) |->
        [line[c] EXCEPT !.lead = IF c = 1 THEN FALSE ELSE @,
                        !.trail = IF c = Len(line) THEN FALSE ELSE @]]

\* f"{value:.1f}": the nearest tenth of a value given in hundredths
Format1f(value) ==
    <<"%.1f", IF value % 10 >= 5 THEN value \div 10 + 1 ELSE value \div 10>>

\* values[hour]
ValueOfFirstHour(values, h) == values[1]
ValueOfHour(values, h) == values[h + 1]

\* the morphed series of a column, in hundredths, one value per pandas row
MorphedOffsets == {4, 6}
MorphedSeries(column, rows, offset) ==
    [h \in 1..rows |-> 100 * column + 10 * h + offset]

\* the columns morphers write
MorphedColumns == {m.epw_column : m \in Morphers}

\* create_morphed_epw after the loop over the morphers, with morphed_data
\* not empty
WriteInit ==
    /\ morphers = <<>> /\ organized_files = EmptyDict /\ epw_cols = 35
    /\ idx = 0 /\ stored_results = EmptyDict /\ log = <<>>
    /\ ret = "pending" /\ written = FALSE /\ new_columns = EmptyDict
    /\ pc = "merge"
    /\ MorphIdle
    /\ WindIdle
    /\ TempIdle
    /\ ParserIdle
    /\ SamplerIdle
    /\ ExtrasIdle
    /\ header_lines = [i \in 1..8 |-> <<"header", i>>]
    /\ \E count \in 1..MaxRows : \E shapes \in [1..count -> LineShapes] :
         data_lines = [r \in 1..count |-> DataLine(r, shapes[r])]
    /\ PandasReads(data_lines)
    /\ \E columns \in (SUBSET MorphedColumns) \ {{}} : \E offset \in MorphedOffsets :
         /\ \A c \in columns : c < Len(PandasRows(data_lines)[1])
         /\ morphed_data =
              [c \in columns |-> MorphedSeries(c, Len(PandasRows(data_lines)), offset)]
    /\ line_hour = 0
    /\ new_data_lines = <<>>
    /\ out_file = NoFile

\* one iteration of 'for hour, line in enumerate(data_lines)'; an index past
\* the end of elements or of values raises, and the outer except returns None
merge_line ==
    /\ pc = "merge"
    /\ line_hour < Len(data_lines)
    /\ LET elements == strip(data_lines[line_hour + 1])
           columns == DOMAIN morphed_data
       IN  IF \E c \in columns :
                 \/ c + 1 > Len(elements)
                 \/ line_hour + 1 > Len(morphed_data[c])
           THEN /\ pc' = "done"
                /\ ret' = "None"
                /\ UNCHANGED <<line_hour, new_data_lines>>
           ELSE /\ new_data_lines' = Append(new_data_lines,
                      [c \in 1..Len(elements) |->
                          IF c - 1 \in columns
                          THEN Field(Format1f(ValueOfHour(morphed_data[c - 1], line_hour)))
                          ELSE elements[c]])
                /\ line_hour' = line_hour + 1
                /\ UNCHANGED <<pc, ret>>
    /\ UNCHANGED <<morphers, organized_files, epw_cols, idx, morphed_data,
                   stored_results, log, written, new_columns>>
    /\ UNCHANGED <<header_lines, data_lines, out_file>>
    /\ UNCHANGED <<mvars, hvars, dvars, svars, xvars>>

\* f.writelines(header_lines); f.writelines(new_data_lines); return the path
write_output ==
    /\ pc = "merge"
    /\ line_hour = Len(data_lines)
    /\ out_file' = [exists |-> TRUE, header |-> header_lines, data |-> new_data_lines]
    /\ written' = TRUE
    /\ new_columns' = morphed_data
    /\ ret' = "path"
    /\ pc' = "done"
    /\ UNCHANGED <<morphers, organized_files, epw_cols, idx, morphed_data,
                   stored_results, log>>
    /\ UNCHANGED <<header_lines, data_lines, line_hour, new_data_lines>>
    /\ UNCHANGED <<mvars, hvars, dvars, svars, xvars>>

WriteNext ==
    \/ merge_line
    \/ write_output

WriteSpec == WriteInit /\ [][WriteNext]_vars

(***************************************************************************)
(* read_dif_file                                                           *)
(***************************************************************************)
MaxBlocks == 13        \* most month blocks of a difference table

\* 9999, in hundredths
Sentinel == 999900

\* an 8 character chunk: whether float() accepts it, and its value in
\* hundredths
Chunk(v) == [parses |-> TRUE, value |-> v]
BadChunk == [parses |-> FALSE, value |-> 0]

\* the lines of a table: a line with "Month is", a line with one of the
\* header words, a line of chunks
MarkerLine(name) == [kind |-> "marker", name |-> name, chunks |-> <<>>]
HeaderLine == [kind |-> "header", name |-> 0, chunks |-> <<>>]
DataOf(chunks) == [kind |-> "data", name |-> 0, chunks |-> chunks]

\* the data lines of a month block
BlockShapes ==
    [single       |-> <<DataOf(<<Chunk(1234)>>)>>,
     zero_first   |-> <<DataOf(<<Chunk(0), Chunk(200)>>)>>,
     two_lines    |-> <<DataOf(<<Chunk(200)>>), DataOf(<<Chunk(400), Chunk(Sentinel)>>)>>,
     missing_first|-> <<DataOf(<<Chunk(Sentinel), Chunk(400)>>)>>,
     all_missing  |-> <<DataOf(<<Chunk(Sentinel), Chunk(Sentinel + 100)>>)>>,
     empty        |-> <<>>,
     bad_line     |-> <<DataOf(<<BadChunk>>), DataOf(<<Chunk(600)>>)>>,
     bad_chunk    |-> <<DataOf(<<Chunk(200), BadChunk>>)>>,
     all_zero     |-> <<DataOf(<<Chunk(0)>>), DataOf(<<Chunk(0), Chunk(0)>>)>>]
UsualShapes == {"single", "zero_first", "two_lines"}

\* the lines before the first month marker
Preambles ==
    [none    |-> <<>>,
     header  |-> <<HeaderLine, HeaderLine>>,
     numbers |-> <<HeaderLine, DataOf(<<Chunk(9600), Chunk(7300)>>)>>]

RECURSIVE Concat(_)
Concat(seqs) == IF seqs = <<>> THEN <<>> ELSE Head(seqs) \o Concat(Tail(seqs))

\* a table of count blocks of one usual shape, the block at position special
\* (if any) of another shape
Table(preamble, count, usual, special, shape) ==
    Preambles[preamble] \o
    Concat([k \in 1..count |->
              <<MarkerLine(k)>> \o BlockShapes[IF k = special THEN shape ELSE usual]])

SpecialPositions(count) == {0, 1, 3, count}

\* float(chunk) for every chunk of the line: ValueError on a chunk that is
\* not a number
LineParses(line) == \A i \in 1..Len(line.chunks) : line.chunks[i].parses

\* [float(chunk) for chunk in chunks if chunk.strip() and float(chunk) < 9999]
NumbersAtMostSentinel(line) ==
    LET below == SelectSeq(line.chunks, LAMBDA chunk : chunk.value <= Sentinel)
    IN  [i \in 1..Len(below) |-> below[i].value]
NumbersBelowSentinel(line) ==
    LET below == SelectSeq(line.chunks, LAMBDA chunk : chunk.value < Sentinel)
    IN  [i \in 1..Len(below) |-> below[i].value]

RECURSIVE SumSeq(_)
SumSeq(seq) == IF seq = <<>> THEN 0 ELSE Head(seq) + SumSeq(Tail(seq))

\* sum(valid_values) / len(valid_values); exact for the tables above
MeanOfNonZero(values) ==
    LET nonzero == SelectSeq(values, LAMBDA v : v # 0)
    IN  IF nonzero = <<>> THEN 0 ELSE SumSeq(nonzero) \div Len(nonzero)
MeanOf(values) == SumSeq(values) \div Len(values)

\* 'if len(monthly_values) >= 12: return monthly_values[:12]', else the
\* ValueError that the outer except turns into None
ReturnAllValues(values) ==
    IF Len(values) >= 12
    THEN [done |-> TRUE, ok |-> TRUE, values |-> values]
    ELSE [done |-> TRUE, ok |-> FALSE, values |-> <<>>]
ReturnMonthlyValues(values) ==
    IF Len(values) >= 12
    THEN [done |-> TRUE, ok |-> TRUE, values |-> SubSeq(values, 1, 12)]
    ELSE [done |-> TRUE, ok |-> FALSE, values |-> <<>>]

FirstValueParsers == {"TemperatureMorpher", "RelativeHumidityMorpher"}
Parsers == FirstValueParsers \cup {"PrecipitableWaterMorpher"}

\* read_dif_file after f.readlines()
ParseInit ==
    /\ PipelineIdle
    /\ MorphIdle
    /\ WindIdle
    /\ TempIdle
    /\ WriterIdle
    /\ SamplerIdle
    /\ ExtrasIdle
    /\ parser \in Parsers
    /\ \E preamble \in DOMAIN Preambles : \E count \in 11..MaxBlocks :
       \E usual \in UsualShapes : \E special \in SpecialPositions(count) :
       \E shape \in DOMAIN BlockShapes :
         /\ special = 0 => shape = usual
         /\ lines = Table(preamble, count, usual, special, shape)
    /\ line_no = 0
    /\ monthly_values = <<>>
    /\ month_value = <<>>
    /\ current_month_name = <<>>
    /\ current_month_data = <<>>
    /\ dif_ret = Pending
    /\ signal_ret = "pending"

\* one iteration of 'for line in lines' of the temperature and the relative
\* humidity parser
first_value_line ==
    /\ parser \in FirstValueParsers
    /\ ~dif_ret.done
    /\ line_no < Len(lines)
    /\ line_no' = line_no + 1
    /\ LET line == lines[line_no + 1]
       IN  CASE line.kind = "marker" ->
                  /\ monthly_values' =
                       IF month_value # <<>> /\ current_month_name # <<>>
                       THEN Append(monthly_values, month_value[1])
                       ELSE monthly_values
                  /\ current_month_name' = <<line.name>>
                  /\ month_value' = <<>>
             [] line.kind = "header" ->
                  UNCHANGED <<monthly_values, current_month_name, month_value>>
             [] line.kind = "data" ->
                  /\ month_value' =
                       IF LineParses(line) /\ NumbersBelowSentinel(line) # <<>>
                                           /\ month_value = <<>>
                       THEN <<NumbersBelowSentinel(line)[1]>>
                       ELSE month_value
                  /\ UNCHANGED <<monthly_values, current_month_name>>
    /\ UNCHANGED <<parser, lines, current_month_data, dif_ret, signal_ret>>
    /\ UNCHANGED <<pvars, mvars, hvars, wvars, svars, xvars>>

\* after the loop of the temperature and the relative humidity parser: the
\* value of the last month, then the count check
first_value_return ==
    /\ parser \in FirstValueParsers
    /\ ~dif_ret.done
    /\ line_no = Len(lines)
    /\ monthly_values' =
         IF month_value # <<>> THEN Append(monthly_values, month_value[1])
         ELSE monthly_values
    /\ dif_ret' = ReturnMonthlyValues(monthly_values')
    /\ UNCHANGED <<parser, lines, line_no, month_value, current_month_name,
                   current_month_data, signal_ret>>
    /\ UNCHANGED <<pvars, mvars, hvars, wvars, svars, xvars>>

\* one iteration of 'for line in lines' of the precipitable water parser
mean_value_line ==
    /\ parser = "PrecipitableWaterMorpher"
    /\ ~dif_ret.done
    /\ line_no < Len(lines)
    /\ line_no' = line_no + 1
    /\ LET line == lines[line_no + 1]
       IN  CASE line.kind = "marker" ->
                  /\ monthly_values' =
                       IF current_month_data # <<>>
                       THEN Append(monthly_values, MeanOf(current_month_data))
                       ELSE monthly_values
                  /\ current_month_name' = <<line.name>>
                  /\ current_month_data' = <<>>
             [] line.kind = "header" ->
                  UNCHANGED <<monthly_values, current_month_name, current_month_data>>
             [] line.kind = "data" ->
                  /\ current_month_data' =
                       IF LineParses(line)
                       THEN current_month_data \o NumbersBelowSentinel(line)
                       ELSE current_month_data
                  /\ UNCHANGED <<monthly_values, current_month_name>>
    /\ UNCHANGED <<parser, lines, month_value, dif_ret, signal_ret>>
    /\ UNCHANGED <<pvars, mvars, hvars, wvars, svars, xvars>>

\* after the loop of the precipitable water parser
mean_value_return ==
    /\ parser = "PrecipitableWaterMorpher"
    /\ ~dif_ret.done
    /\ line_no = Len(lines)
    /\ monthly_values' =
         IF current_month_data # <<>>
         THEN Append(monthly_values, MeanOf(current_month_data))
         ELSE monthly_values
    /\ dif_ret' = ReturnMonthlyValues(monthly_values')
    /\ UNCHANGED <<parser, lines, line_no, month_value, current_month_name,
                   current_month_data, signal_ret>>
    /\ UNCHANGED <<pvars, mvars, hvars, wvars, svars, xvars>>

\* the caller's check of what read_dif_file returned: 'if not all([...])',
\* 'if not delta_rhum', 'if delta_prec is None'; other_tables says whether
\* the other tables of the temperature morpher were read
signal_check(other_tables) ==
    /\ dif_ret.done
    /\ signal_ret = "pending"
    /\ signal_ret' =
         IF ~dif_ret.ok THEN "None"
         ELSE IF parser = "TemperatureMorpher" /\ ~other_tables THEN "None"
         ELSE "morphs"
    /\ UNCHANGED <<parser, lines, line_no, monthly_values, month_value,
                   current_month_name, current_month_data, dif_ret>>
    /\ UNCHANGED <<pvars, mvars, hvars, wvars, svars, xvars>>

ParseNext ==
    \/ first_value_line
    \/ first_value_return
    \/ mean_value_line
    \/ mean_value_return
    \/ \E other_tables \in BOOLEAN : signal_check(other_tables)

ParseSpec == ParseInit /\ [][ParseNext]_vars

(***************************************************************************)
(* get_value_from_tif and get_monthly_values                               *)
(***************************************************************************)
MaxFiles == 13         \* most files in a list of monthly rasters

\* x_frac and y_frac, in quarters of a cell
Fractions == 0..3
ScaleFactors == {1, 10}

\* the positions <<row, column>> of the 3x3 window
Cells == (1..3) \X (1..3)

\* a window whose cells at the positions in valid hold offset + 10, 20 .. 90
\* and whose other cells hold the no-data value
WindowOf(valid, offset) ==
    [y \in 1..3 |-> [x \in 1..3 |->
        IF <<y, x>> \in valid THEN offset + 10 * (3 * (y - 1) + x) ELSE NoDataValue]]

\* np.where(data == src.nodata, np.nan, data) under 'if src.nodata is not None'
MaskNever(cell, declared) == cell
MaskNoData(cell, declared) ==
    IF declared /\ cell = NoDataValue THEN NaN ELSE cell

\* data[y_offset:y_offset+2, x_offset:x_offset+2]
SubWindow(window, y_offset, x_offset) ==
    [i \in 1..2 |-> [j \in 1..2 |-> window[y_offset + i][x_offset + j]]]

\* the quadrants in the order of 'for y_offset in range(2): for x_offset in
\* range(2)', as <<y_offset, x_offset>>
Quadrants == <<<<0, 0>>, <<0, 1>>, <<1, 0>>, <<1, 1>>>>

\* float multiplication, addition and division: nan in, nan out
FMul(a, b) == IF a = NaN \/ b = NaN THEN NaN ELSE a * b
FAdd(a, b) == IF a = NaN \/ b = NaN THEN NaN ELSE a + b
FDiv(a, b) == IF a = NaN \/ b = NaN THEN NaN ELSE a \div b

\* np.sum of a 2x2 array
Sum2x2(m) == FAdd(FAdd(m[1][1], m[1][2]), FAdd(m[2][1], m[2][2]))

\* the weight matrix [[w00, w01], [w10, w11]], in sixteenths
Weights(x, y) == <<<<(4 - x) * (4 - y), x * (4 - y)>>, <<(4 - x) * y, x * y>>>>

\* np.count_nonzero(~np.isnan(subdata))
ValidCells(values) ==
    Cardinality({c \in (1..2) \X (1..2) : values[c[1]][c[2]] # NaN})

\* bilinear_interpolate, the result in sixteenths: values * valid_weights is
\* nan wherever values is nan, weight 0 or not, and np.sum of it is then nan
bilinear_interpolate(values, x, y) ==
    LET weights == Weights(x, y)
        valid_weights ==
            [i \in 1..2 |-> [j \in 1..2 |->
                IF values[i][j] # NaN THEN weights[i][j] ELSE 0]]
        weight_sum == Sum2x2(valid_weights)
    IN  IF ValidCells(values) = 0 THEN NaN
        ELSE IF ValidCells(values) = 4
        THEN Sum2x2([i \in 1..2 |-> [j \in 1..2 |-> FMul(values[i][j], weights[i][j])]])
        ELSE IF weight_sum > 0
        THEN FDiv(FMul(16, Sum2x2([i \in 1..2 |-> [j \in 1..2 |->
                                     FMul(values[i][j], valid_weights[i][j])]])),
                  weight_sum)
        ELSE NaN

\* get_value_from_tif once the window is read: the first quadrant with at
\* least 2 valid cells whose interpolation is not nan gives the value, times
\* scale_factor; None when there is none
get_value_from_tif(window, declared, x, y, scale) ==
    LET masked == [r \in 1..3 |-> [c \in 1..3 |-> MaskNoData(window[r][c], declared)]]
        subdata(q) == SubWindow(masked, Quadrants[q][1], Quadrants[q][2])
        usable == {q \in 1..4 :
                     /\ ValidCells(subdata(q)) >= 2
                     /\ bilinear_interpolate(subdata(q), x, y) # NaN}
    IN  IF usable = {} THEN [done |-> TRUE, ok |-> FALSE, values |-> <<>>]
        ELSE LET first == CHOOSE q \in usable : \A other \in usable : q <= other
             IN  [done |-> TRUE, ok |-> TRUE,
                  values |-> <<bilinear_interpolate(subdata(first), x, y) * scale>>]

\* a monthly raster: the month number in its name and what its window holds
RasterKinds == {"full", "partial", "empty"}
WindowOfFile(file) ==
    CASE file.window = "full" -> WindowOf(Cells, 100 * file.name)
      [] file.window = "partial" -> WindowOf({<<1, 1>>, <<1, 2>>, <<2, 1>>}, 100 * file.name)
      [] file.window = "empty" -> EmptyWindow

\* sorted(monthly_files)
sorted(files) ==
    [i \in 1..Len(files) |->
        CHOOSE f \in {files[j] : j \in 1..Len(files)} :
            Cardinality({j \in 1..Len(files) : files[j].name < f.name}) = i - 1]

\* 'if len(monthly_values) != 12: return None', else the list
ReturnAnyCount(values) == [done |-> TRUE, ok |-> TRUE, values |-> values]
ReturnTwelve(values) ==
    IF Len(values) # 12
    THEN [done |-> TRUE, ok |-> FALSE, values |-> <<>>]
    ELSE [done |-> TRUE, ok |-> TRUE, values |-> values]

\* a call of get_value_from_tif on a window, or of get_monthly_values on a
\* list of files at most one of which is not fully valid
SampleInit ==
    /\ PipelineIdle
    /\ MorphIdle
    /\ WindIdle
    /\ TempIdle
    /\ WriterIdle
    /\ ParserIdle
    /\ ExtrasIdle
    /\ sampling \in {"tif", "monthly"}
    /\ x_frac \in Fractions
    /\ y_frac \in Fractions
    /\ scale_factor \in ScaleFactors
    /\ IF sampling = "tif"
       THEN /\ \E valid \in SUBSET Cells : window_data = WindowOf(valid, 0)
            /\ nodata_declared \in BOOLEAN
            /\ monthly_files = <<>>
       ELSE /\ window_data = EmptyWindow
            /\ nodata_declared = TRUE
            /\ \E count \in 11..MaxFiles : \E reversed \in BOOLEAN :
               \E bad \in {0, 1, 7, count} : \E content \in RasterKinds :
                 /\ bad = 0 => content = "full"
                 /\ monthly_files =
                      [i \in 1..count |->
                         LET name == IF reversed THEN count + 1 - i ELSE i
                         IN  [name |-> name,
                              window |-> IF name = bad THEN content ELSE "full"]]
    /\ tif_ret = Pending
    /\ file_no = 0
    /\ sampled_values = <<>>
    /\ monthly_ret = Pending
    /\ hist_ret = "pending"

\* get_value_from_tif
sample_tif ==
    /\ sampling = "tif"
    /\ ~tif_ret.done
    /\ tif_ret' = get_value_from_tif(window_data, nodata_declared, x_frac, y_frac, scale_factor)
    /\ UNCHANGED <<sampling, window_data, nodata_declared, x_frac, y_frac, scale_factor,
                   monthly_files, file_no, sampled_values, monthly_ret, hist_ret>>
    /\ UNCHANGED <<pvars, mvars, hvars, wvars, dvars, xvars>>

\* one iteration of 'for file_path in sorted(monthly_files)'
monthly_file ==
    /\ sampling = "monthly"
    /\ ~monthly_ret.done
    /\ file_no < Len(monthly_files)
    /\ LET file == sorted(monthly_files)[file_no + 1]
           value == get_value_from_tif(WindowOfFile(file), nodata_declared,
                                       x_frac, y_frac, scale_factor)
       IN  /\ window_data' = WindowOfFile(file)
           /\ tif_ret' = value
           /\ IF value.ok
              THEN /\ sampled_values' = Append(sampled_values, value.values[1])
                   /\ file_no' = file_no + 1
                   /\ UNCHANGED monthly_ret
              ELSE /\ monthly_ret' = [done |-> TRUE, ok |-> FALSE, values |-> <<>>]
                   /\ UNCHANGED <<sampled_values, file_no>>
    /\ UNCHANGED <<sampling, nodata_declared, x_frac, y_frac, scale_factor,
                   monthly_files, hist_ret>>
    /\ UNCHANGED <<pvars, mvars, hvars, wvars, dvars, xvars>>

\* after the loop of get_monthly_values
monthly_return ==
    /\ sampling = "monthly"
    /\ ~monthly_ret.done
    /\ file_no = Len(monthly_files)
    /\ monthly_ret' = ReturnTwelve(sampled_values)
    /\ UNCHANGED <<sampling, window_data, nodata_declared, x_frac, y_frac, scale_factor,
                   tif_ret, monthly_files, file_no, sampled_values, hist_ret>>
    /\ UNCHANGED <<pvars, mvars, hvars, wvars, dvars, xvars>>

\* WindSpeedMorpher.morph_variable: 'if not hist_wind: return None'
hist_wind_check ==
    /\ sampling = "monthly"
    /\ monthly_ret.done
    /\ hist_ret = "pending"
    /\ hist_ret' = IF monthly_ret.ok /\ monthly_ret.values # <<>> THEN "morphs" ELSE "None"
    /\ UNCHANGED <<sampling, window_data, nodata_declared, x_frac, y_frac, scale_factor,
                   tif_ret, monthly_files, file_no, sampled_values, monthly_ret>>
    /\ UNCHANGED <<pvars, mvars, hvars, wvars, dvars, xvars>>

SampleNext ==
    \/ sample_tif
    \/ monthly_file
    \/ monthly_return
    \/ hist_wind_check

SampleSpec == SampleInit /\ [][SampleNext]_vars

(***************************************************************************)
(* organize_files                                                          *)
(***************************************************************************)
MaxDirFiles == 3       \* most files in the base directory

\* a file name is a stem, given as its pieces in order with every '_' a
\* piece of its own, and a suffix; a key of a climate file set as pieces
Pieces(key) ==
    CASE key = "WIND_historic" -> <<"WIND", "_", "historic">>
      [] key = "TEMP_historic" -> <<"TEMP", "_", "historic">>
      [] key = "VAPR_historic" -> <<"VAPR", "_", "historic">>
      [] key = "TMAX_future" -> <<"TMAX", "_", "future">>
      [] key = "TMIN_future" -> <<"TMIN", "_", "future">>
      [] OTHER -> <<key>>

\* the file HADCM3_<experiment>_<key>_<year><suffix>
FileNamed(experiment, key, year, suffix) ==
    [stem |-> <<"HADCM3", "_", experiment, "_">> \o Pieces(key) \o <<"_", year>>,
     suffix |-> suffix]

\* what the base directory may hold
DirFiles ==
    {FileNamed("A2a", "TEMP", "2020", ".dif"),
     FileNamed("A2a", "TEMP", "2020", ".mea"),
     FileNamed("A2a", "TMAX", "2020", ".dif"),
     FileNamed("A2a", "TMIN", "2020", ".dif"),
     FileNamed("A2b", "RHUM", "2050", ".dif"),
     FileNamed("A2c", "PREC", "1980", ".mea"),
     FileNamed("A2a", "WIND_historic", "2020", ".dif"),
     FileNamed("B2a", "TEMP", "2020", ".dif"),
     FileNamed("A2a", "TEMP", "1990", ".dif"),
     FileNamed("A2a", "TEMP", "2020", ".txt"),
     [stem |-> <<"readme">>, suffix |-> ".dif"]}

\* file_path.stem.split('_')
RECURSIVE split(_)
split(stem) ==
    IF stem = <<>> THEN <<"">>
    ELSE LET rest == split(Tail(stem))
         IN  IF Head(stem) = "_" THEN <<"">> \o rest
             ELSE <<Head(stem) \o Head(rest)>> \o Tail(rest)

\* 'if file_path.suffix not in ['.dif', '.mea']: continue'
SuffixWanted(file) == file.suffix \in {".dif", ".mea"}

\* the body of the loop of organize_files for one file: the mapping
\* afterwards, and whether the lookup of line 52 raised KeyError
OrganizeFile(mapping, file) ==
    LET parts == split(file.stem)
        experiment == parts[2]
        variable == parts[3]
        year == parts[4]
    IN  IF ~SuffixWanted(file) \/ Len(parts) # 4
        THEN [raised |-> FALSE, files |-> mapping]
        ELSE IF experiment \notin DOMAIN mapping
                \/ year \notin DOMAIN mapping[experiment]
        THEN [raised |-> TRUE, files |-> mapping]
        ELSE LET listed == IF variable \in DOMAIN mapping[experiment][year]
                           THEN mapping[experiment][year][variable] ELSE <<>>
             IN  [raised |-> FALSE,
                  files |-> [mapping EXCEPT ![experiment][year] =
                                SetItem(@, variable, Append(listed, file))]]

\* organize_files over the files in the order given
RECURSIVE OrganizeAll(_, _)
OrganizeAll(mapping, files) ==
    IF files = <<>> THEN [raised |-> FALSE, files |-> mapping]
    ELSE LET one == OrganizeFile(mapping, Head(files))
         IN  IF one.raised THEN one ELSE OrganizeAll(one.files, Tail(files))

\* organize_files on a directory of distinct files, after line 34
OrganizeInit ==
    /\ PipelineIdle
    /\ MorphIdle
    /\ WindIdle
    /\ TempIdle
    /\ WriterIdle
    /\ ParserIdle
    /\ SamplerIdle
    /\ PrecIdle
    /\ \E count \in 0..MaxDirFiles :
         base_path \in {dir \in [1..count -> DirFiles] :
                          \A i \in 1..count : \A j \in 1..count : dir[i] = dir[j] => i = j}
    /\ glob_no = 0
    /\ organized = NothingOrganized
    /\ organize_ret = "pending"

\* one iteration of 'for file_path in self.base_path.glob("*.*")'
organize_file ==
    /\ organize_ret = "pending"
    /\ glob_no < Len(base_path)
    /\ LET one == OrganizeFile(organized, base_path[glob_no + 1])
       IN  IF one.raised
           THEN /\ organize_ret' = "KeyError"
                /\ UNCHANGED <<glob_no, organized>>
           ELSE /\ organized' = one.files
                /\ glob_no' = glob_no + 1
                /\ UNCHANGED organize_ret
    /\ UNCHANGED base_path
    /\ UNCHANGED <<pvars, mvars, hvars, wvars, dvars, svars, qvars>>

\* the loop is exhausted
organize_return ==
    /\ organize_ret = "pending"
    /\ glob_no = Len(base_path)
    /\ organize_ret' = "done"
    /\ UNCHANGED <<base_path, glob_no, organized>>
    /\ UNCHANGED <<pvars, mvars, hvars, wvars, dvars, svars, qvars>>

OrganizeNext ==
    \/ organize_file
    \/ organize_return

OrganizeSpec == OrganizeInit /\ [][OrganizeNext]_vars

(***************************************************************************)
(* PrecipitableWaterMorpher.morph_variable                                 *)
(*                                                                         *)
(* Precipitable water and its monthly changes are in hundredths of a       *)
(* millimetre, scaling factors in thousandths; a float quotient is cut to  *)
(* that unit.                                                              *)
(***************************************************************************)
MaxPrecHours == 1417   \* longest baseline series of the precipitable water loop

\* file names and paths, in the parts a name is made of; 'IWEC' in str(path)
\* is true of a path that has the part
EpwFiles ==
    {<<"London", "epw">>, <<"London", "IWEC", "epw">>, <<"London", "TMYx", "epw">>,
     <<"London", "IWEC", "TMYx", "epw">>}
PrecFiles ==
    {<<"HADCM3", "A2a", "PREC", "2020", "dif">>,
     <<"IWEC", "HADCM3", "A2a", "PREC", "2020", "dif">>,
     <<"TMYx", "HADCM3", "A2a", "PREC", "2020", "dif">>}
InPath(hint, path) == \E i \in 1..Len(path) : path[i] = hint

\* baseline series: empty, one hour, a month and an hour, two months and an
\* hour; the values of January and of the later hours, of both conventions,
\* zero included
PrecLens == {0, 1, 31*24 + 1, MaxPrecHours}
PrecLevels == {<<0, 0>>, <<5, 8>>, <<5, 2000>>, <<1500, 2000>>}
PrecSeries ==
    {[len |-> len, first |-> level[1], rest |-> level[2], break |-> 31*24] :
        len \in PrecLens, level \in PrecLevels}
PrecAt(series, h) == IF h < series.break THEN series.first ELSE series.rest

\* the monthly changes read_dif_file returns, or None
PrecChanges == {-50, 120}
PrecTables ==
    {[month \in 1..12 |-> IF month % 2 = 1 THEN a ELSE b] :
        a \in PrecChanges, b \in PrecChanges} \cup {None}

\* Series.mean(): nan for an empty series
SeriesMean(series) ==
    IF series.len = 0 THEN NaN
    ELSE LET early == IF series.len < series.break THEN series.len ELSE series.break
         IN  (early * series.first + (series.len - early) * series.rest) \div series.len

\* detect_epw_format(data, filepath): the hints of the path first, then
\* 'mean_value < 0.1'
detect_epw_format(series, filepath) ==
    IF InPath("IWEC", filepath) THEN "IWEC"
    ELSE IF InPath("TMYx", filepath) THEN "TMYx"
    ELSE IF Gt(10, SeriesMean(series)) THEN "IWEC"
    ELSE "TMYx"

\* preprocess_base_data(data, filepath): 'data * 10.0' for IWEC
preprocess_base_data(series, filepath) ==
    IF detect_epw_format(series, filepath) = "IWEC"
    THEN [series EXCEPT !.first = @ * 10, !.rest = @ * 10]
    ELSE series

\* calculate_scaling_factors: '1 + (change / base_mean) if base_mean > 0 else 1'
calculate_scaling_factors(changes, mean) ==
    [month \in 1..12 |->
        IF Gt(mean, 0) THEN 1000 + (changes[month] * 1000) \div mean ELSE 1000]

\* morph_variable as the manager calls it: the weather record was read by
\* the manager, the morph receives its column and the climate files
PrecInit ==
    /\ PipelineIdle
    /\ MorphIdle
    /\ WindIdle
    /\ TempIdle
    /\ WriterIdle
    /\ ParserIdle
    /\ SamplerIdle
    /\ OrganizerIdle
    /\ epw_file \in EpwFiles
    /\ prec_file \in PrecFiles
    /\ prec_base \in PrecSeries
    /\ delta_prec = None
    /\ processed_data = NoSeries
    /\ base_mean = 0
    /\ prec_factors = <<>>
    /\ prec_hour = 0
    /\ prec_month = 1
    /\ prec_count = 0
    /\ morphed_prec = 0
    /\ prec_pc = "start"
    /\ prec_ret = "pending"

\* lines 200-210: the baseline is preprocessed with the path of the climate
\* file, the table is read and the factors are computed; None when the
\* table cannot be read
prec_prepare ==
    /\ prec_pc = "start"
    /\ LET processed == preprocess_base_data(prec_base, prec_file)
       IN  /\ processed_data' = processed
           /\ base_mean' = SeriesMean(processed)
           /\ \E table \in PrecTables :
                /\ delta_prec' = table
                /\ IF table = None
                   THEN /\ prec_ret' = "None"
                        /\ prec_pc' = "done"
                        /\ UNCHANGED prec_factors
                   ELSE /\ prec_factors' =
                               calculate_scaling_factors(table, SeriesMean(processed))
                        /\ prec_pc' = "loop"
                        /\ UNCHANGED prec_ret
    /\ UNCHANGED <<epw_file, prec_file, prec_base, prec_hour, prec_month, prec_count,
                   morphed_prec>>
    /\ UNCHANGED <<pvars, mvars, hvars, wvars, dvars, svars, gvars>>

\* one iteration of 'for hour, precip in enumerate(processed_data)'
prec_morph_hour ==
    /\ prec_pc = "loop"
    /\ prec_hour < processed_data.len
    /\ LET month == MonthForHour(prec_month, prec_count)
           count == CountForHour(prec_month, prec_count)
       IN  /\ prec_month' = month
           /\ prec_count' = count + 1
           /\ morphed_prec' =
                  (prec_factors[month] * PrecAt(processed_data, prec_hour)) \div 1000
    /\ prec_hour' = prec_hour + 1
    /\ UNCHANGED <<epw_file, prec_file, prec_base, delta_prec, processed_data, base_mean,
                   prec_factors, prec_pc, prec_ret>>
    /\ UNCHANGED <<pvars, mvars, hvars, wvars, dvars, svars, gvars>>

\* after the loop: the statistics take min() of the morphed array, which
\* raises on an empty one; otherwise the list is returned
prec_return ==
    /\ prec_pc = "loop"
    /\ prec_hour = processed_data.len
    /\ prec_pc' = "done"
    /\ prec_ret' = IF prec_hour = 0 THEN "None" ELSE "list"
    /\ UNCHANGED <<epw_file, prec_file, prec_base, delta_prec, processed_data, base_mean,
                   prec_factors, prec_hour, prec_month, prec_count, morphed_prec>>
    /\ UNCHANGED <<pvars, mvars, hvars, wvars, dvars, svars, gvars>>

PrecNext == prec_prepare \/ prec_morph_hour \/ prec_return

PrecSpec == PrecInit /\ [][PrecNext]_vars

(***************************************************************************)
(* Properties of the pipeline                                              *)
(***************************************************************************)
Processed == 1..Len(log)
MorphedAt(i) == log[i].outcome = "Morphed"
SkippedAt(i) == log[i].outcome \in {"NoBase", "DepUnmet", "MissingFiles"}
LastLogged(l) == l[Len(l)]

\* C1: when the loop reaches a DewPointMorpher while 'TEMP' or 'RH' is not in
\* the result cache, the iteration does not invoke the morph, logs the
\* variable as skipped, and leaves the cache without 'DPT' and the column set
\* without column 7; a run whose registered morphers are all dew point
\* morphers writes no record and merges no column.
C1_DewPointNeedsTempAndRH ==
    /\ [][ ( /\ pc = "loop"
             /\ idx <= Len(morphers)
             /\ morphers[idx].cls = "DewPointMorpher"
             /\ ("TEMP" \notin DOMAIN stored_results \/ "RH" \notin DOMAIN stored_results) )
           => /\ Len(log') = Len(log) + 1
              /\ LastLogged(log').variable = "DPT"
              /\ LastLogged(log').outcome \in {"DepUnmet", "NoBase"}
              /\ LastLogged(log').values = None
              /\ stored_results' = stored_results
              /\ morphed_data' = morphed_data
              /\ "DPT" \notin DOMAIN stored_results'
              /\ 7 \notin DOMAIN morphed_data' ]_vars
    /\ [] ( ( /\ pc = "done"
              /\ morphers # <<>>
              /\ \A i \in 1..Len(morphers) : morphers[i].cls = "DewPointMorpher" )
            => /\ \A i \in Processed : SkippedAt(i)
               /\ Len(log) = Len(morphers)
               /\ ret = "None"
               /\ ~written
               /\ 7 \notin DOMAIN morphed_data )

\* a dew point morpher with a readable location was skipped for its
\* dependency while another variable of the same run was merged
C1_Witness ==
    /\ pc = "done"
    /\ written
    /\ \E i \in Processed :
         /\ morphers[i] = WithEpwPath(DewPointMorpher, "A")
         /\ log[i].outcome = "DepUnmet"
    /\ 7 \notin DOMAIN new_columns
    /\ "DPT" \notin DOMAIN stored_results

C3_RegistrationOrder ==
    /\ Len(log) <= Len(morphers)
    /\ \A i \in Processed :
         /\ log[i].variable = morphers[i].variable_name
         /\ log[i].column = morphers[i].epw_column
    /\ pc = "done" => Len(log) = Len(morphers)
    /\ \A i \in Processed :
         ( /\ morphers[i].cls = "DewPointMorpher"
           /\ \/ \A j \in 1..(i - 1) : morphers[j].cls # "TemperatureMorpher"
              \/ \A j \in 1..(i - 1) : morphers[j].cls # "RelativeHumidityMorpher" )
         => SkippedAt(i)

\* dew point first, then temperature and humidity both succeed
C3_Witness ==
    /\ pc = "done"
    /\ morphers = <<WithEpwPath(DewPointMorpher, "A"), TemperatureMorpher,
                    RelativeHumidityMorpher>>
    /\ log[1].outcome = "DepUnmet"
    /\ MorphedAt(2)
    /\ MorphedAt(3)
    /\ DOMAIN new_columns = {6, 8}

\* C4: after every iteration a variable name is in the result cache iff its
\* column is in the column set, both hold the series returned by the last
\* successful morph of that variable, and a variable none of whose morphs
\* succeeded is in neither.
C4_CacheMatchesColumns ==
    /\ \A i \in 1..Len(morphers) :
         LET name == morphers[i].variable_name
             column == morphers[i].epw_column
             successes == {j \in Processed : log[j].variable = name /\ MorphedAt(j)}
         IN  /\ name \in DOMAIN stored_results <=> column \in DOMAIN morphed_data
             /\ name \in DOMAIN stored_results <=> successes # {}
             /\ name \in DOMAIN stored_results =>
                  /\ stored_results[name] = morphed_data[column]
                  /\ \E j \in successes :
                       /\ \A k \in successes : k <= j
                       /\ stored_results[name] = log[j].values
    /\ DOMAIN stored_results \subseteq {morphers[i].variable_name : i \in 1..Len(morphers)}
    /\ DOMAIN morphed_data \subseteq {morphers[i].epw_column : i \in 1..Len(morphers)}

\* in the middle of a run: one variable stored, one skipped, one to go
C4_Witness ==
    /\ pc = "loop"
    /\ Len(morphers) = 3
    /\ Len(log) = 2
    /\ log[1].outcome = "MissingFiles"
    /\ MorphedAt(2)
    /\ log[2].variable = "PREC"
    /\ DOMAIN stored_results = {"PREC"}
    /\ DOMAIN morphed_data = {28}

C6_MissingFilesSkip ==
    [][ ( /\ pc = "loop"
          /\ idx <= Len(morphers)
          /\ morphers[idx].cls # "DewPointMorpher"
          /\ \E key \in morphers[idx].required_files : key \notin DOMAIN organized_files )
        => /\ Len(log') = Len(log) + 1
           /\ LastLogged(log').variable = morphers[idx].variable_name
           /\ LastLogged(log').outcome \in {"MissingFiles", "NoBase"}
           /\ LastLogged(log').values = None
           /\ stored_results' = stored_results
           /\ morphed_data' = morphed_data
           /\ pc' = "loop"
           /\ idx' = idx + 1 ]_vars

\* a variable skipped for a missing file, a later one merged
C6_Witness ==
    /\ pc = "done"
    /\ \E i \in Processed : \E j \in Processed :
         /\ i < j
         /\ log[i].outcome = "MissingFiles"
         /\ log[i].variable = "TEMP"
         /\ MorphedAt(j)
    /\ written
    /\ 6 \notin DOMAIN new_columns

DaysPerMonth == <<31, 28, 31, 30, 31, 30, 31, 31, 30, 31, 30, 31>>
RECURSIVE DaysBefore(_)
DaysBefore(month) == IF month = 1 THEN 0 ELSE DaysBefore(month - 1) + DaysPerMonth[month - 1]
CalendarMonth(h) ==
    LET day == (h % (365 * 24)) \div 24
    IN  CHOOSE month \in 1..12 :
          DaysBefore(month) <= day /\ day < DaysBefore(month) + DaysPerMonth[month]

\* C8 as stated: in every series DewPointMorpher.morph_variable returns, the
\* dew point of an hour does not exceed the dry-bulb temperature passed in
\* for that hour, fallback hours included.
C8_DewPointNotAboveDryBulb ==
    (kind = "DewPointMorpher" /\ mret = "list") =>
        \A h \in 1..Len(morphed_dpt) :
            future_temp[h] # Missing => ~Gt(morphed_dpt[h], future_temp[h])

\* C9: every value the relative humidity loop appends lies in [0, 100] and
\* equals base + delta of the hour's calendar month when that sum lies in
\* [0, 100]; the returned list has one value per baseline hour.
C9_HumidityClamped ==
    kind = "RelativeHumidityMorpher" =>
        /\ hour >= 1 =>
             LET sum == rh0 + delta_rhum[CalendarMonth(hour - 1)]
             IN  /\ 0 <= morphed_value
                 /\ morphed_value <= 100
                 /\ (0 <= sum /\ sum <= 100) => morphed_value = sum
                 /\ sum < 0 => morphed_value = 0
                 /\ sum > 100 => morphed_value = 100
        /\ mret = "list" => hour = n /\ out_len = n

\* a whole year was morphed and the last hour, in December, was clamped
C9_Witness ==
    /\ kind = "RelativeHumidityMorpher"
    /\ mret = "list"
    /\ n = 365 * 24
    /\ current_month = 12
    /\ delta_rhum[12] # delta_rhum[1]
    /\ rh0 + delta_rhum[12] > 100
    /\ morphed_value = 100

\* C10: a series returned by any morph_variable has exactly as many entries
\* as the baseline series it was given.
C10_LengthPreserved ==
    mret = "list" =>
        /\ out_len = n
        /\ n > 0
        /\ kind = "DewPointMorpher" => Len(morphed_dpt) = n

\* a dew point series with a fallback hour, and a series longer than a year
C10_Witness ==
    /\ mret = "list"
    /\ \/ kind = "DewPointMorpher" /\ fell_back # {} /\ n = MaxDewHours
       \/ kind = "WindSpeedMorpher" /\ n > 365 * 24

\* C11 as stated: with all 12 monthly humidity deltas 0, the relative humidity
\* morph succeeds and every hour's morphed value equals the baseline value.
C11_HumidityIdentity ==
    (kind = "RelativeHumidityMorpher" /\ delta_rhum = NoDeltas) =>
        /\ hour >= 1 => morphed_value = rh0
        /\ mpc = "done" => mret = "list"

\* C11 amended: with all 12 monthly humidity deltas 0, every hour's morphed
\* value equals the baseline value limited to [0, 100], hence the baseline
\* value itself wherever that lies in [0, 100]; the morph succeeds for every
\* non-empty baseline and returns one value per hour.
C11_HumidityIdentityWithinRange ==
    (kind = "RelativeHumidityMorpher" /\ delta_rhum = NoDeltas) =>
        /\ hour >= 1 =>
             /\ (0 <= rh0 /\ rh0 <= 100) => morphed_value = rh0
             /\ rh0 > 100 => morphed_value = 100
             /\ rh0 < 0 => morphed_value = 0
        /\ mpc = "done" => (mret = "list" <=> n > 0)
        /\ mret = "list" => out_len = n

\* a year morphed with zero deltas whose last hour kept its baseline value
C11_Witness ==
    /\ kind = "RelativeHumidityMorpher"
    /\ delta_rhum = NoDeltas
    /\ mret = "list"
    /\ n = 365 * 24
    /\ rh0 = 90
    /\ morphed_value = 90

\* C12 as stated: when every monthly wind scaling factor is 1, every hour's
\* morphed wind speed equals the baseline wind speed of that hour.
C12_WindIdentity ==
    ( /\ kind = "WindSpeedMorpher"
      /\ \A month \in 1..12 : scaling_factors[month] = 100
      /\ hour >= 1 )
    => morphed_speed = ws0 * 1000000

(***************************************************************************)
(* Properties of the written record                                        *)
(***************************************************************************)
\* C13 as stated: the written record has the 8 header lines of the baseline,
\* and in every data row each field outside the morphed columns equals the
\* baseline field.
C13_OtherFieldsUntouched ==
    out_file.exists =>
        /\ out_file.header = header_lines
        /\ Len(out_file.header) = 8
        /\ Len(out_file.data) = Len(data_lines)
        /\ \A r \in 1..Len(data_lines) :
             /\ Len(out_file.data[r]) = Len(data_lines[r])
             /\ \A c \in 1..Len(data_lines[r]) :
                  (c - 1) \notin DOMAIN morphed_data =>
                      out_file.data[r][c] = data_lines[r][c]

\* C13 amended: the written record has the 8 header lines of the baseline,
\* and in every data row each field outside the morphed columns has the text
\* of the baseline field; white space that precedes the first field or
\* follows the last field of a baseline row is not written, all other white
\* space is.
C13_OtherFieldsKeepText ==
    out_file.exists =>
        /\ out_file.header = header_lines
        /\ Len(out_file.header) = 8
        /\ Len(out_file.data) = Len(data_lines)
        /\ \A r \in 1..Len(data_lines) :
             /\ Len(out_file.data[r]) = Len(data_lines[r])
             /\ \A c \in 1..Len(data_lines[r]) :
                  (c - 1) \notin DOMAIN morphed_data =>
                      /\ out_file.data[r][c].text = data_lines[r][c].text
                      /\ out_file.data[r][c].lead = (c # 1 /\ data_lines[r][c].lead)
                      /\ out_file.data[r][c].trail =
                           (c # Len(data_lines[r]) /\ data_lines[r][c].trail)

\* a record was written whose baseline had a row with white space at its ends
\* and two morphed columns
C13_Witness ==
    /\ out_file.exists
    /\ Len(data_lines) = MaxRows
    /\ data_lines[2][1].lead
    /\ data_lines[2][35].trail
    /\ ~out_file.data[2][35].trail
    /\ DOMAIN morphed_data = {6, 28}

\* C14: the written record has as many data rows as the baseline, in the
\* same order, and in row h every morphed column holds the h-th value of its
\* series rounded to one decimal place.
C14_MorphedFieldsPerHour ==
    out_file.exists =>
        /\ Len(out_file.data) = Len(data_lines)
        /\ \A r \in 1..Len(data_lines) :
             /\ out_file.data[r][1].text = <<r, 0>>
             /\ \A c \in DOMAIN morphed_data :
                  LET field == out_file.data[r][c + 1]
                      value == morphed_data[c][r]
                  IN  /\ Len(morphed_data[c]) = Len(data_lines)
                      /\ field.text[1] = "%.1f"
                      /\ 10 * field.text[2] - value <= 5
                      /\ value - 10 * field.text[2] <= 5
                      /\ ~field.lead /\ ~field.trail

\* three rows written, humidity and temperature morphed, the values of the
\* second and third hour differ
C14_Witness ==
    /\ out_file.exists
    /\ Len(out_file.data) = 3
    /\ DOMAIN morphed_data = {6, 8}
    /\ out_file.data[2][7].text = Format1f(morphed_data[6][2])
    /\ out_file.data[3][7].text # out_file.data[2][7].text

(***************************************************************************)
(* Properties of read_dif_file                                             *)
(***************************************************************************)
\* the number of month markers among the first i lines of a table
RECURSIVE MarkersUpTo(_, _)
MarkersUpTo(tbl, i) ==
    IF i = 0 THEN 0
    ELSE MarkersUpTo(tbl, i - 1) + (IF tbl[i].kind = "marker" THEN 1 ELSE 0)

BlockCount(tbl) == MarkersUpTo(tbl, Len(tbl))

\* the values below 9999 of block k, in the order of the file, taken from the
\* data lines all of whose chunks are numbers; block 0 is what precedes the
\* first month marker
RECURSIVE ValidValuesUpTo(_, _, _)
ValidValuesUpTo(tbl, k, i) ==
    IF i = 0 THEN <<>>
    ELSE LET line == tbl[i]
             numbers == SelectSeq(line.chunks, LAMBDA chunk : chunk.value < 999900)
         IN  IF /\ line.kind = "data"
                /\ MarkersUpTo(tbl, i) = k
                /\ \A j \in 1..Len(line.chunks) : line.chunks[j].parses
             THEN ValidValuesUpTo(tbl, k, i - 1) \o [j \in 1..Len(numbers) |-> numbers[j].value]
             ELSE ValidValuesUpTo(tbl, k, i - 1)

ValidValues(tbl, k) == ValidValuesUpTo(tbl, k, Len(tbl))

\* the month values a table holds for a parser, block after block: the first
\* valid value of each block with one, or the mean of the valid values of
\* each block with one, the lines before the first marker included
RECURSIVE FoundUpTo(_, _, _)
FoundUpTo(cls, tbl, k) ==
    IF k < 0 THEN <<>>
    ELSE LET values == ValidValues(tbl, k)
             earlier == FoundUpTo(cls, tbl, k - 1)
         IN  IF values = <<>> THEN earlier
             ELSE IF cls = "PrecipitableWaterMorpher"
             THEN Append(earlier, SumSeq(values) \div Len(values))
             ELSE IF k = 0 THEN earlier
             ELSE Append(earlier, values[1])

Found(cls, tbl) == FoundUpTo(cls, tbl, BlockCount(tbl))

\* C15: the temperature and the relative humidity parser never return a
\* value equal to or above 9999; for a table of 12 month blocks they return
\* the first value below 9999 of each block (and fail when a block has none);
\* 12 blocks each holding the single chunk 12.34 give twelve times 12.34.
C15_FirstValidValuePerBlock ==
    (parser \in FirstValueParsers /\ dif_ret.done) =>
        /\ \A k \in 1..Len(dif_ret.values) : dif_ret.values[k] < 999900
        /\ BlockCount(lines) = 12 =>
             IF \A k \in 1..12 : ValidValues(lines, k) # <<>>
             THEN /\ dif_ret.ok
                  /\ Len(dif_ret.values) = 12
                  /\ \A k \in 1..12 : dif_ret.values[k] = ValidValues(lines, k)[1]
             ELSE ~dif_ret.ok
        /\ (\E preamble \in DOMAIN Preambles :
               lines = Table(preamble, 12, "single", 0, "single")) =>
             /\ dif_ret.ok
             /\ dif_ret.values = [k \in 1..12 |-> 1234]

\* 12 blocks read by the temperature parser: the third starts with a missing
\* value, which is passed over, the others start with a zero, which is kept
C15_Witness ==
    /\ parser = "TemperatureMorpher"
    /\ dif_ret.ok
    /\ lines = Table("numbers", 12, "zero_first", 3, "missing_first")
    /\ dif_ret.values[3] = 400
    /\ dif_ret.values[1] = 0
    /\ signal_ret = "morphs"

\* C16: every read_dif_file returns exactly 12 values or None: the first 12
\* of the month values found when 12 or more are found, None when fewer are;
\* after None the caller returns None instead of morphing.
C16_TwelveValuesOrFailure ==
    dif_ret.done =>
        LET found == Found(parser, lines)
        IN  /\ dif_ret.ok => Len(dif_ret.values) = 12
            /\ ~dif_ret.ok => dif_ret.values = <<>>
            /\ Len(found) >= 12 =>
                 /\ dif_ret.ok
                 /\ dif_ret.values = SubSeq(found, 1, 12)
            /\ Len(found) < 12 => ~dif_ret.ok
            /\ signal_ret # "pending" =>
                 /\ ~dif_ret.ok => signal_ret = "None"
                 /\ signal_ret = "morphs" => dif_ret.ok

\* a table with 13 month values: the first 12 are returned and used
C16_Witness ==
    /\ parser = "PrecipitableWaterMorpher"
    /\ dif_ret.ok
    /\ Len(Found(parser, lines)) = 13
    /\ Len(dif_ret.values) = 12
    /\ signal_ret = "morphs"

\* a table with 11 month values: the parse fails and so does the caller
C16_WitnessFailure ==
    /\ parser = "RelativeHumidityMorpher"
    /\ dif_ret.done
    /\ ~dif_ret.ok
    /\ Len(Found(parser, lines)) = 11
    /\ signal_ret = "None"

\* C17: for a table whose blocks each hold a value below 9999 and that has
\* no numbers before its first month marker, the precipitable water parser
\* returns for each of the first 12 blocks the arithmetic mean of all the
\* block's values below 9999, zeros counted, and 0 for a block whose valid
\* values are all zero.
C17_MeanOfValidValues ==
    ( /\ parser = "PrecipitableWaterMorpher"
      /\ dif_ret.done
      /\ ValidValues(lines, 0) = <<>>
      /\ \A k \in 1..BlockCount(lines) : ValidValues(lines, k) # <<>> )
    => /\ dif_ret.ok <=> BlockCount(lines) >= 12
       /\ dif_ret.ok =>
            \A k \in 1..12 :
                LET values == ValidValues(lines, k)
                IN  /\ dif_ret.values[k] * Len(values) = SumSeq(values)
                    /\ (\A j \in 1..Len(values) : values[j] = 0) => dif_ret.values[k] = 0

\* the third block holds three zeros, the others a zero and 2.00
C17_Witness ==
    /\ parser = "PrecipitableWaterMorpher"
    /\ dif_ret.ok
    /\ lines = Table("header", 12, "zero_first", 3, "all_zero")
    /\ dif_ret.values[3] = 0
    /\ dif_ret.values[1] = 100

(***************************************************************************)
(* Properties of the raster sampling                                       *)
(***************************************************************************)
\* the cells of the quadrant with offsets <<y_offset, x_offset>> that hold
\* data: every cell when the raster declares no no-data value
ValidOfQuadrant(window, declared, y_offset, x_offset) ==
    {c \in Cells :
        /\ c[1] \in {y_offset + 1, y_offset + 2}
        /\ c[2] \in {x_offset + 1, x_offset + 2}
        /\ ~(declared /\ window[c[1]][c[2]] = -9999)}

\* C18: a value get_value_from_tif returns is a weighted mean, times the
\* scale, of the valid cells of a quadrant with at least 2 valid cells, so it
\* lies between the least and the greatest of them and no no-data cell
\* enters it; when no quadrant has 2 valid cells the result is None.
C18_SampleNeedsTwoValidCells ==
    (sampling = "tif" /\ tif_ret.done) =>
        /\ tif_ret.ok =>
             \E y_offset \in 0..1 : \E x_offset \in 0..1 :
                LET valid == ValidOfQuadrant(window_data, nodata_declared, y_offset, x_offset)
                IN  /\ Cardinality(valid) >= 2
                    /\ \E low \in valid : \E high \in valid :
                         /\ 16 * scale_factor * window_data[low[1]][low[2]] <= tif_ret.values[1]
                         /\ tif_ret.values[1] <= 16 * scale_factor * window_data[high[1]][high[2]]
        /\ (\A y_offset \in 0..1 : \A x_offset \in 0..1 :
              Cardinality(ValidOfQuadrant(window_data, nodata_declared, y_offset, x_offset)) < 2)
           => ~tif_ret.ok

\* a window whose top-left quadrant has one valid cell and whose bottom-right
\* quadrant is fully valid gave a value
C18_Witness ==
    /\ sampling = "tif"
    /\ tif_ret.ok
    /\ nodata_declared
    /\ window_data[1][1] = -9999
    /\ window_data[1][2] = -9999
    /\ window_data[2][1] = -9999
    /\ x_frac = 1
    /\ y_frac = 2

\* a window with a single valid cell in every quadrant gave None
C18_WitnessMissing ==
    /\ sampling = "tif"
    /\ tif_ret.done
    /\ ~tif_ret.ok
    /\ nodata_declared
    /\ \A c \in Cells : window_data[c[1]][c[2]] # -9999 <=> c = <<2, 2>>

\* C19: get_monthly_values returns a list only for 12 files every one of
\* which gives a sample, and the list then holds 12 values, the k-th sampled
\* from the file that is k-th in name order; with a file that gives no
\* sample or with a number of files other than 12 it returns None, and the
\* wind morph then returns None.
C19_TwelveSamplesOrNone ==
    (sampling = "monthly" /\ monthly_ret.done) =>
        LET all_sampled ==
                \A i \in 1..Len(monthly_files) : monthly_files[i].window = "full"
        IN  /\ monthly_ret.ok <=> (Len(monthly_files) = 12 /\ all_sampled)
            /\ ~monthly_ret.ok => monthly_ret.values = <<>>
            /\ monthly_ret.ok =>
                 /\ Len(monthly_ret.values) = 12
                 /\ \A k \in 1..12 :
                      /\ 16 * scale_factor * (100 * k + 10) <= monthly_ret.values[k]
                      /\ monthly_ret.values[k] <= 16 * scale_factor * (100 * k + 90)
            /\ hist_ret # "pending" => (hist_ret = "morphs" <=> monthly_ret.ok)

\* 12 files listed in descending name order, all sampled
C19_Witness ==
    /\ sampling = "monthly"
    /\ monthly_ret.ok
    /\ monthly_files[1].name = 12
    /\ monthly_files[12].name = 1
    /\ hist_ret = "morphs"

\* 12 files, the seventh without a usable neighbourhood
C19_WitnessMissing ==
    /\ sampling = "monthly"
    /\ monthly_ret.done
    /\ ~monthly_ret.ok
    /\ Len(monthly_files) = 12
    /\ file_no = 6
    /\ hist_ret = "None"


(***************************************************************************)
(* Properties of the temperature morph                                     *)
(***************************************************************************)
\* the mean of the baseline hours of a calendar month of a whole year,
\* counted from the shape of the series: half of the hours of a month are
\* high, and the hours from series.break on are raised by series.swing
MeanOfMonth(series, month) ==
    LET first == 24 * DaysBefore(month)
        count == 24 * DaysPerMonth[month]
        raised == Max2(0, first + count - Max2(first, series.break))
    IN  (count * LowTemp + (count \div 2) * series.amplitude
           + raised * series.swing) \div count

\* C20: for every hour i of an 8760-hour baseline the temperature loop
\* appends base[i] + dmean_m + alpha_m * (base[i] - mean_m), where m is the
\* calendar month of hour i under the table of 31,28,31,30,31,30,31,31,30,
\* 31,30,31 days and mean_m is the mean of the baseline hours of that same
\* month; the month of the statistics and the month of the loop agree.
C20_TemperatureFormula ==
    (kind = "TemperatureMorpher" /\ n = 365 * 24 /\ hour >= 1) =>
        LET m == CalendarMonth(hour - 1)
            base == BaseTemp(base_data, hour - 1)
            mean_m == MeanOfMonth(base_data, m)
            alpha_m == scaling_factors_dbt[m]
        IN  /\ current_month = m
            /\ dbt0 = base
            /\ monthly_stats[m].mean = mean_m
            /\ morphed_temp =
                  IF alpha_m \in {NaN, Inf, -Inf}
                  THEN MorphedTemp(base, delta_temp[m], alpha_m, mean_m)
                  ELSE base + delta_temp[m] + (alpha_m * (base - mean_m)) \div 100

\* a whole year was morphed; December differs from January in its mean, its
\* change and its factor, and its last hour was moved by all three terms
C20_Witness ==
    /\ kind = "TemperatureMorpher"
    /\ n = 365 * 24
    /\ mret = "list"
    /\ current_month = 12
    /\ monthly_stats[12].mean # monthly_stats[1].mean
    /\ delta_temp[12] # delta_temp[1]
    /\ scaling_factors_dbt[12] \notin {0, NaN, Inf, scaling_factors_dbt[1]}
    /\ delta_temp[12] # 0
    /\ morphed_temp # dbt0 + delta_temp[12]
    /\ morphed_temp # dbt0

\* January of the scenario: the factor is 1.0 and every hour is
\* base + change + (base - mean)
C20_WitnessJanuary ==
    /\ kind = "TemperatureMorpher"
    /\ n = 365 * 24
    /\ hour = 31 * 24
    /\ scaling_factors_dbt[1] = 100
    /\ delta_temp[1] = 200
    /\ morphed_temp = dbt0 + 200 + (dbt0 - monthly_stats[1].mean)
    /\ dbt0 # monthly_stats[1].mean


(***************************************************************************)
(* Properties of the per-hour failure policy                               *)
(***************************************************************************)
\* C21 as stated: an hour whose calculation fails takes its baseline value
\* and the series is still returned.  In the dew point loop: no hour holds
\* the nan of a failed formula (the logarithm of a zero pressure), every
\* hour that took the except branch holds a baseline value, and a call in
\* which some hour failed still returns its list.
C21_HourFailureFallsBack ==
    kind = "DewPointMorpher" =>
        /\ \A h \in 1..Len(morphed_dpt) :
              /\ morphed_dpt[h] # NaN
              /\ h \in fell_back => morphed_dpt[h] \in BaseDPT
        /\ (mpc = "done" /\ fell_back # {}) => mret = "list"


(***************************************************************************)
(* Properties of the dew point inputs                                      *)
(***************************************************************************)
\* the last iteration before i that morphed the variable name; 0 if none
LastMorphed(name, i) ==
    LET earlier == {j \in 1..(i - 1) : log[j].variable = name /\ log[j].outcome = "Morphed"}
    IN  IF earlier = {} THEN 0 ELSE CHOOSE j \in earlier : \A k \in earlier : k <= j

\* the dew point of an hour with dry bulb temp and humidity rh: at 100 % it
\* is the dry bulb (10.00 degrees after the limit, 19.98 at 20 degrees), at
\* 0 % the formula has no value
DewPointAt(temp, rh) ==
    IF rh = 0 THEN NaN ELSE IF temp = 1000 THEN 1000 ELSE 1998

\* C22: the series the pipeline passes to the dew point morph are the series
\* stored under 'TEMP' and 'RH' by earlier morphers of the run, and every
\* hour that does not fall back is a function of that hour's morphed
\* temperature and humidity alone.
C22_DewPointFromMorphedSeries ==
    /\ \A i \in 1..Len(log) :
          (log[i].variable = "DPT" /\ log[i].outcome \in {"Morphed", "MorphFailed"}) =>
              LET t == LastMorphed("TEMP", i)
                  r == LastMorphed("RH", i)
              IN  /\ t > 0
                  /\ r > 0
                  /\ log[i].args = <<log[t].values, log[r].values>>
                  /\ log[i].args = <<Series("TEMP", "-"), Series("RH", "-")>>
    /\ kind = "DewPointMorpher" =>
          \A h \in 1..Len(morphed_dpt) :
              h \notin fell_back =>
                  morphed_dpt[h] = DewPointAt(future_temp[h], future_rh[h])

\* a run morphed temperature, humidity and then the dew point
C22_Witness ==
    /\ Len(log) = 3
    /\ log[3].variable = "DPT"
    /\ log[3].outcome = "Morphed"
    /\ log[3].args = <<log[1].values, log[2].values>>
    /\ log[1].variable = "TEMP"
    /\ log[2].variable = "RH"

\* a dew point series with a computed hour at each humidity and a fallback hour
C22_WitnessHours ==
    /\ kind = "DewPointMorpher"
    /\ mret = "list"
    /\ fell_back # {}
    /\ \E h \in 1..Len(morphed_dpt) : h \notin fell_back /\ future_rh[h] = 0
    /\ \E h \in 1..Len(morphed_dpt) : h \notin fell_back /\ future_rh[h] = 100
                                         /\ morphed_dpt[h] = 1998


(***************************************************************************)
(* Properties of the quadrant search                                       *)
(***************************************************************************)
\* the weight of a window cell in the quadrant with the given offsets, in
\* sixteenths
WeightOfCell(c, y_offset, x_offset) ==
    LET fx == IF c[2] = x_offset + 1 THEN 4 - x_frac ELSE x_frac
        fy == IF c[1] = y_offset + 1 THEN 4 - y_frac ELSE y_frac
    IN  fx * fy

RECURSIVE SumOver(_, _, _, _)
SumOver(cells, y_offset, x_offset, weighted) ==
    IF cells = {} THEN 0
    ELSE LET c == CHOOSE cell \in cells : TRUE
         IN  (IF weighted
              THEN window_data[c[1]][c[2]] * WeightOfCell(c, y_offset, x_offset)
              ELSE WeightOfCell(c, y_offset, x_offset))
             + SumOver(cells \ {c}, y_offset, x_offset, weighted)

\* C23 as stated: the quadrants are examined in the order top-left,
\* top-right, bottom-left, bottom-right, and whenever some quadrant has 2 or
\* more valid cells get_value_from_tif returns the scaled interpolation of
\* the first such quadrant, its weights normalized over the valid cells.
C23_FirstQualifyingQuadrant ==
    (sampling = "tif" /\ tif_ret.done) =>
        LET qualifying ==
                {q \in 1..4 :
                    Cardinality(ValidOfQuadrant(window_data, nodata_declared,
                                                Quadrants[q][1], Quadrants[q][2])) >= 2}
        IN  qualifying # {} =>
              LET q == CHOOSE first \in qualifying : \A other \in qualifying : first <= other
                  valid == ValidOfQuadrant(window_data, nodata_declared,
                                           Quadrants[q][1], Quadrants[q][2])
                  weight_sum == SumOver(valid, Quadrants[q][1], Quadrants[q][2], FALSE)
              IN  /\ tif_ret.ok
                  /\ weight_sum > 0 =>
                        tif_ret.values[1] =
                          ((16 * SumOver(valid, Quadrants[q][1], Quadrants[q][2], TRUE))
                              \div weight_sum) * scale_factor


(***************************************************************************)
(* Properties of the temperature scaling factor                            *)
(***************************************************************************)
\* C24 as stated: a month whose baseline maximum equals its baseline
\* minimum gets the scaling factor 1.0, and every morphed value of such a
\* month is a finite number.
C24_ZeroRangeFactorIsOne ==
    kind = "TemperatureMorpher" =>
        \A month \in 1..12 :
            (/\ monthly_stats[month].max # NaN
             /\ monthly_stats[month].max = monthly_stats[month].min
             /\ hour >= 1
             /\ current_month = month) =>
                /\ scaling_factors_dbt[month] = 100
                /\ morphed_temp \notin {NaN, Inf, -Inf}


(***************************************************************************)
(* Properties of the location of a run                                     *)
(***************************************************************************)
\* self.epw_path of the manager: the baseline record of the run
ManagerEpwPath == "A"

\* C25 as stated: every morpher the pipeline runs that needs a location
\* takes it from the pipeline's baseline record; in particular the dew
\* point morph, invoked with 'TEMP' and 'RH' in the result cache, does not
\* fail for lack of a location and is morphed.
C25_LocationOfTheRun ==
    \A i \in 1..Len(log) :
        /\ (log[i].variable = "DPT" /\ log[i].outcome \in {"Morphed", "MorphFailed"}) =>
              /\ get_location_from_epw(morphers[i]) = Series("LOC", ManagerEpwPath)
              /\ log[i].outcome = "Morphed"
        /\ (log[i].variable = "WIND" /\ log[i].outcome = "Morphed") =>
              log[i].values = Series("WIND", ManagerEpwPath)


(***************************************************************************)
(* Properties of organize_files                                            *)
(***************************************************************************)
\* the files of the directory, and where a file belongs by its name
FilesOfDir == {base_path[i] : i \in 1..Len(base_path)}
Indexable(file) ==
    /\ file.suffix \in {".dif", ".mea"}
    /\ Len(split(file.stem)) = 4
KnownPlace(file) ==
    /\ split(file.stem)[2] \in experiments
    /\ split(file.stem)[4] \in OrganizedYears

\* how often a file is listed under experiment, year and variable
TimesListed(file, exp, year, variable) ==
    IF variable \notin DOMAIN organized[exp][year] THEN 0
    ELSE Cardinality({k \in 1..Len(organized[exp][year][variable]) :
                        organized[exp][year][variable][k] = file})

\* C26 as stated: organize_files never raises and indexes exactly the files
\* whose suffix is .dif or .mea and whose stem has four tokens, each once
\* and under its own experiment, year and variable; every other file,
\* a .dif or .mea file of an unknown experiment or year included, is
\* ignored.
C26_IndexesExactlyTheTables ==
    /\ organize_ret # "KeyError"
    /\ organize_ret = "done" =>
          \A file \in FilesOfDir :
            \A exp \in experiments : \A year \in OrganizedYears :
              \A variable \in {split(f.stem)[3] : f \in {g \in FilesOfDir : Indexable(g)}} :
                TimesListed(file, exp, year, variable) =
                    IF /\ Indexable(file)
                       /\ KnownPlace(file)
                       /\ <<exp, variable, year>> = <<split(file.stem)[2], split(file.stem)[3],
                                                       split(file.stem)[4]>>
                    THEN 1 ELSE 0

\* the morphers main registers whose required_files the pipeline checks
CheckedMorphersOfMain ==
    {TemperatureMorpher, RelativeHumidityMorpher, WindSpeedMorpher,
     PrecipitableWaterMorpher}

\* C27 as stated, for the directory that names one table after each
\* required key: when the base directory holds, for a morpher main
\* registers, a file HADCM3_<experiment>_<key>_<year>.dif for each key of
\* its required_files, organize_files produces every one of these keys and
\* the morpher passes the required-inputs check.
C27_RequiredKeysCanBeProduced ==
    organize_ret = "done" =>
        \A m \in CheckedMorphersOfMain :
          \A exp \in experiments : \A year \in future_years :
            (\A key \in m.required_files :
                 FileNamed(exp, key, year, ".dif") \in FilesOfDir)
              => RequiredFilesPresent(m, organized[exp][year])

\* no key organize_files produces holds a '_': 'WIND_historic' and the keys
\* of the dew point morph are never among them
NoKeyWithUnderscore ==
    \A exp \in experiments : \A year \in OrganizedYears :
        \A m \in {WindSpeedMorpher, DewPointMorpher} :
            m.required_files \cap DOMAIN organized[exp][year] = {}

\* the files listed first, per experiment, year and variable
FirstFiles(mapping) ==
    [exp \in experiments |-> [year \in OrganizedYears |->
        [variable \in DOMAIN mapping[exp][year] |-> mapping[exp][year][variable][1]]]]

\* the directory in another enumeration order
Reordered(order) == [i \in 1..Len(base_path) |-> base_path[order[i]]]

\* C28 as stated: element 0 of every file list is the same for every
\* enumeration order of the base directory, also when a .dif and a .mea
\* file exist for the same experiment, variable and year.
C28_FirstFileIndependentOfOrder ==
    organize_ret = "done" =>
        \A order \in Permutations(1..Len(base_path)) :
            FirstFiles(OrganizeAll(NothingOrganized, Reordered(order)).files)
                = FirstFiles(organized)


(***************************************************************************)
(* Properties of the month positions of read_dif_file                      *)
(***************************************************************************)
\* C29 as stated: for a table with at least 12 month markers, the k-th
\* value read_dif_file returns is derived from the data lines of the k-th
\* month block alone: the first value below 9999 of the block, or for
\* precipitable water the mean of its values below 9999.  Numbers before
\* the first marker enter no month and a block without a value moves no
\* later month forward.
C29_ValuesStayInTheirMonth ==
    (dif_ret.ok /\ BlockCount(lines) >= 12) =>
        \A k \in 1..12 :
            LET values == ValidValues(lines, k)
            IN  values # <<>> =>
                  dif_ret.values[k] =
                    IF parser = "PrecipitableWaterMorpher"
                    THEN SumSeq(values) \div Len(values)
                    ELSE values[1]


(***************************************************************************)
(* Properties of the precipitable water morph                              *)
(***************************************************************************)
\* alpha_m = 1 + delta_m / base_mean, and 1 when base_mean is not positive
PrecAlpha(changes, mean, month) ==
    IF Gt(mean, 0) THEN 1000 + (changes[month] * 1000) \div mean ELSE 1000

\* two series hold the same values hour by hour
SameSeries(a, b) ==
    /\ a.len = b.len
    /\ \A h \in {0, a.break} : h < a.len => PrecAt(a, h) = PrecAt(b, h)

\* C30 as stated: the convention is decided from the name of the weather
\* record (the IWEC hint first, then TMYx, the mean below 0.1 only when the
\* name has neither), an IWEC baseline is multiplied by 10, and every hour
\* of the result is alpha_m times the normalized baseline, with
\* alpha_m = 1 + delta_m / base_mean and alpha_m = 1 when base_mean is not
\* positive.
C30_ConventionFromTheRecordName ==
    prec_pc # "start" =>
        LET normalized == preprocess_base_data(prec_base, epw_file)
        IN  /\ SameSeries(processed_data, normalized)
            /\ (prec_pc = "loop" /\ prec_hour >= 1) =>
                  morphed_prec =
                    (PrecAlpha(delta_prec, SeriesMean(normalized),
                               CalendarMonth(prec_hour - 1))
                       * PrecAt(normalized, prec_hour - 1)) \div 1000

====
